---- MODULE Spec2Model ----
(***************************************************************************)
(* The CloudPact front end: the text/scanner configuration chosen by       *)
(* ParseWithFilename and the recursive-descent parser of parser.go.        *)
(*                                                                         *)
(* Source text is a sequence of character runs ("chunks"): a run of        *)
(* identifier characters, a run of decimal digits, or one single other     *)
(* character.  The scanner works on chunks exactly as text/scanner works   *)
(* on characters; adjacent identifier/digit runs join into one token.      *)
(***************************************************************************)
EXTENDS Integers, Sequences, FiniteSets, TLC

VARIABLES r, filename, p, file, pc, ret, watch

vars == <<r, filename, p, file, pc, ret, watch>>

Nil == [node |-> "nil"]

(***************************************************************************)
(* Character classes of text/scanner.                                      *)
(***************************************************************************)
TopLevelWords == {"module", "define", "function", "model"}

StatementWords == {"if", "return", "set", "create", "fail", "use", "for", "while"}

RelationshipWords == {"belongs_to", "has_one", "has_many", "references"}

ClauseWords ==
    {"record", "type", "as", "why", "do", "validate", "returns", "then", "else",
     "with", "contains", "not", "assign", "ai", "feedback", "security", "go", "ts",
     "native"}

NameWords ==
    {"User", "Order", "M", "id", "name", "Int", "String", "Email", "f", "g", "check",
     "age", "result", "x", "y", "bcrypt", "algorithm", "note", "w"}

\* runs of letters, digits and underscores that start with a letter or underscore
IdentRuns == TopLevelWords \cup StatementWords \cup RelationshipWords \cup ClauseWords \cup NameWords

\* runs of decimal digits
DigitRuns == {"0", "1", "18"}

\* scanner.GoWhitespace: blank, tab, carriage return, newline
Whitespace == {" ", "\t", "\n"}

\* every other character is a chunk of its own
OtherChars == {"{", "}", "(", ")", ":", ",", ".", "=", "<", ">", "-", "+", "/", "*", "\""}

Chunks == IdentRuns \cup DigitRuns \cup Whitespace \cup OtherChars

RECURSIVE Concat(_)
Concat(cs) == IF cs = <<>> THEN "" ELSE Head(cs) \o Concat(Tail(cs))

(***************************************************************************)
(* text/scanner.Scanner as ParseWithFilename configures it:                *)
(* Mode = ScanIdents | ScanInts | ScanFloats | ScanChars | ScanStrings |   *)
(* ScanComments.  SkipComments is not set, so a comment is a token.        *)
(***************************************************************************)
scannerInit(src) ==
    [src |-> src, i |-> 1, line |-> 1, column |-> 1, offset |-> 0,
     Position |-> [Line |-> 0, Column |-> 0, Offset |-> 0], text |-> <<>>]

atEnd(s) == s.i > Len(s.src)

peek(s) == s.src[s.i]

\* x is computed once, then handed to K
Bind(x, K(_)) == CHOOSE out \in {K(v) : v \in {x}} : TRUE

\* read one chunk into the token text
advance(s0) ==
    Bind(s0, LAMBDA s :
    [s EXCEPT !.i = s.i + 1,
              !.line = IF peek(s) = "\n" THEN s.line + 1 ELSE s.line,
              !.column = IF peek(s) = "\n" THEN 1 ELSE s.column + Len(peek(s)),
              !.offset = s.offset + Len(peek(s)),
              !.text = Append(s.text, peek(s))])

RECURSIVE takeWhile(_, _)
takeWhile(s0, set) ==
    Bind(s0, LAMBDA s :
    IF ~atEnd(s) /\ peek(s) \in set THEN takeWhile(advance(s), set) ELSE s)

RECURSIVE takeUntil(_, _)
takeUntil(s0, set) ==
    Bind(s0, LAMBDA s :
    IF ~atEnd(s) /\ peek(s) \notin set THEN takeUntil(advance(s), set) ELSE s)

\* "/*" has been read: read up to and including the closing "*/", or to the end
RECURSIVE scanGeneralComment(_)
scanGeneralComment(s0) ==
    Bind(s0, LAMBDA s :
    IF atEnd(s) THEN s
    ELSE Bind(advance(s), LAMBDA s1 :
         IF peek(s) = "*" /\ ~atEnd(s1) /\ peek(s1) = "/"
         THEN advance(s1)
         ELSE scanGeneralComment(s1)))

\* the first "/" has been read: a line comment runs up to the newline
scanComment(s0) ==
    Bind(s0, LAMBDA s :
    IF peek(s) = "/" THEN takeUntil(advance(s), {"\n"})
    ELSE scanGeneralComment(advance(s)))

\* the opening quote has been read: read to the closing quote; a newline or
\* the end of input leaves the literal unterminated and ends the token
scanString(s0) ==
    Bind(takeUntil(s0, {"\"", "\n"}), LAMBDA body :
    IF ~atEnd(body) /\ peek(body) = "\"" THEN advance(body) ELSE body)

\* a run of digits; a "." after it makes the number a float
scanNumber(s0) ==
    Bind(takeWhile(s0, DigitRuns), LAMBDA digits :
    IF ~atEnd(digits) /\ peek(digits) = "."
    THEN [s |-> takeWhile(advance(digits), DigitRuns), tok |-> "Float"]
    ELSE [s |-> digits, tok |-> "Int"])

\* the Mode bits set by ParseWithFilename
Mode == {"ScanIdents", "ScanInts", "ScanFloats", "ScanChars", "ScanStrings", "ScanComments"}

\* the token text is reset and Position is set to the scanner's place
markToken(s0) ==
    Bind(s0, LAMBDA s :
    [s EXCEPT !.text = <<>>,
              !.Position = [Line |-> s.line, Column |-> s.column, Offset |-> s.offset]])

\* Scanner.Scan under the given mode bits: skip white space, set Position,
\* read one token; identParts are the chunks that continue an identifier
RECURSIVE scanToken(_, _, _)
scanToken(s0, mode, identParts) ==
    Bind(markToken(takeWhile(s0, Whitespace)), LAMBDA s :
    IF atEnd(s) THEN [s |-> s, tok |-> "EOF"]
    ELSE Bind(advance(s), LAMBDA s1 :
    IF peek(s) \in IdentRuns /\ "ScanIdents" \in mode
    THEN [s |-> takeWhile(s1, identParts), tok |-> "Ident"]
    ELSE IF peek(s) \in DigitRuns /\ {"ScanInts", "ScanFloats"} \cap mode # {}
    THEN scanNumber(s)
    ELSE IF peek(s) = "\"" /\ "ScanStrings" \in mode
    THEN [s |-> scanString(s1), tok |-> "String"]
    ELSE IF peek(s) = "." /\ "ScanFloats" \in mode /\ ~atEnd(s1) /\ peek(s1) \in DigitRuns
    THEN [s |-> takeWhile(s1, DigitRuns), tok |-> "Float"]
    ELSE IF peek(s) = "/" /\ "ScanComments" \in mode /\ ~atEnd(s1) /\ peek(s1) \in {"/", "*"}
    THEN IF "SkipComments" \in mode
         THEN scanToken(scanComment(s1), mode, identParts)
         ELSE [s |-> scanComment(s1), tok |-> "Comment"]
    ELSE [s |-> s1, tok |-> peek(s)]))

\* a scanner for which "-" continues an identifier, as the grammar's spelling
\* of assign-use, ai-feedback and go-native would need
ScanHyphenated(s0) == scanToken(s0, Mode, IdentRuns \cup DigitRuns \cup {"-"})

Scan(s0) == scanToken(s0, Mode, IdentRuns \cup DigitRuns)

\* Scanner.TokenText
TokenText(q) == Concat(q.scanner.text)

\* strings.Trim(text, `"`) on the token text
RECURSIVE TrimLeft(_)
TrimLeft(cs) == IF cs # <<>> /\ Head(cs) = "\"" THEN TrimLeft(Tail(cs)) ELSE cs

RECURSIVE TrimRight(_)
TrimRight(cs) ==
    IF cs # <<>> /\ cs[Len(cs)] = "\"" THEN TrimRight(SubSeq(cs, 1, Len(cs) - 1)) ELSE cs

Trim(q) == Concat(TrimRight(TrimLeft(q.scanner.text)))

(***************************************************************************)
(* The parser struct and its utilities.                                    *)
(***************************************************************************)
\* the tokens that successive calls of Scan return, up to and including the
\* first EOF, each with the scanner as that call leaves it
RECURSIVE scanAll(_)
scanAll(s) ==
    Bind(Scan(s), LAMBDA t : IF t.tok = "EOF" THEN <<t>> ELSE <<t>> \o scanAll(t.s))

\* &parser{filename: filename} with p.scanner.Init(r): the scanner is
\* deterministic, so the tokens it will return are fixed from here on
newParser(src, fname) ==
    [scanner |-> scannerInit(src), tok |-> "EOF", filename |-> fname,
     tokens |-> scanAll(scannerInit(src)), at |-> 0]

\* the parser standing on the i-th token
tokenAt(q, i) == [q EXCEPT !.at = i, !.tok = q.tokens[i].tok, !.scanner = q.tokens[i].s]

\* p.tok = p.scanner.Scan(); at the end of input Scan returns EOF again
next(q) == tokenAt(q, IF q.at < Len(q.tokens) THEN q.at + 1 ELSE q.at)

position(q) ==
    [Line |-> q.scanner.Position.Line, Column |-> q.scanner.Position.Column,
     Offset |-> q.scanner.Position.Offset, File |-> q.filename]

\* an error that leaves out the text of the token
ErrorfWithoutText(format, q) ==
    [node |-> "error", format |-> format, hasText |-> FALSE, got |-> "", at |-> position(q)]

\* fmt.Errorf(format, ..., p.scanner.TokenText(), p.position())
Errorf(format, q) ==
    [node |-> "error", format |-> format, hasText |-> TRUE, got |-> TokenText(q),
     at |-> position(q)]

\* fmt.Errorf(format, p.position()): the message names no token
ErrorfAt(format, q) ==
    [node |-> "error", format |-> format, hasText |-> FALSE, got |-> "", at |-> position(q)]

Ok(q, v) == [p |-> q, val |-> v, err |-> Nil]

Fail(q, e) == [p |-> q, val |-> Nil, err |-> e]

\* m[key] = value on a Go map, kept as a set of <<key, value>> pairs
mapSet(m, key, value) == {kv \in m : kv[1] # key} \cup {<<key, value>>}

expect(q, tok, expected) ==
    IF q.tok # tok
    THEN Fail(q, Errorf("expected " \o expected \o ", got %q at %s", q))
    ELSE Ok(next(q), Nil)

expectKeyword(q, keyword) ==
    IF q.tok # "Ident" \/ TokenText(q) # keyword
    THEN Fail(q, Errorf("expected '" \o keyword \o "', got %q at %s", q))
    ELSE Ok(next(q), Nil)

isTopLevelKeyword(keyword) ==
    keyword \in {"module", "define", "function", "model", "assign-use"}

isStatementKeyword(keyword) ==
    keyword \in {"if", "return", "set", "create", "fail", "use", "for", "while"}

isRelationshipKeyword(keyword) ==
    keyword \in {"belongs_to", "has_one", "has_many", "references"}

\* if err != nil { return nil, err }; otherwise go on with the result
Then(res, K(_)) == Bind(res, LAMBDA x : IF x.err # Nil THEN x ELSE K(x))

(***************************************************************************)
(* Declarations.                                                           *)
(***************************************************************************)
parseModule(q) ==
    Then(expectKeyword(q, "module"), LAMBDA k :
    IF k.p.tok # "Ident"
    THEN Fail(k.p, Errorf("expected module name, got %q at %s", k.p))
    ELSE Ok(next(k.p), [node |-> "Module", Name |-> TokenText(k.p), Position |-> position(q)]))

parseType(q) ==
    IF q.tok # "Ident" THEN Fail(q, Errorf("expected type name, got %q at %s", q))
    ELSE Ok(next(q), [node |-> "Type", Name |-> TokenText(q), Position |-> position(q),
                      Constraints |-> {}])

\* a field definition that does without the ":" when it is missing
parseFieldDefLenient(q) ==
    IF q.tok # "Ident" THEN Fail(q, Errorf("expected field name, got %q at %s", q))
    ELSE Then(parseType(IF next(q).tok = ":" THEN next(next(q)) ELSE next(q)), LAMBDA t :
         Ok(t.p, [node |-> "FieldDef", Name |-> TokenText(q), Type |-> t.val,
                  Position |-> position(q)]))

\* a field definition that takes the two sides of the ":" the other way round
parseFieldDefSwapped(q) ==
    IF q.tok # "Ident" THEN Fail(q, Errorf("expected field name, got %q at %s", q))
    ELSE Then(expect(next(q), ":", "':'"), LAMBDA c :
         Then(parseType(c.p), LAMBDA t :
         Ok(t.p, [node |-> "FieldDef", Name |-> t.val.Name,
                  Type |-> [t.val EXCEPT !.Name = TokenText(q)],
                  Position |-> position(q)])))

parseFieldDef(q) ==
    IF q.tok # "Ident" THEN Fail(q, Errorf("expected field name, got %q at %s", q))
    ELSE Then(expect(next(q), ":", "':'"), LAMBDA c :
         Then(parseType(c.p), LAMBDA t :
         Ok(t.p, [node |-> "FieldDef", Name |-> TokenText(q), Type |-> t.val,
                  Position |-> position(q)])))

\* a field loop that lists the last field first
RECURSIVE parseRecordFieldsPrepending(_, _)
parseRecordFieldsPrepending(q, record) ==
    IF q.tok = "Ident" /\ ~isTopLevelKeyword(TokenText(q))
    THEN Then(parseFieldDef(q), LAMBDA fd :
         parseRecordFieldsPrepending(fd.p, [record EXCEPT !.Fields = <<fd.val>> \o @]))
    ELSE Ok(q, record)

\* the field loop of parseRecord
RECURSIVE parseRecordFields(_, _)
parseRecordFields(q, record) ==
    IF q.tok = "Ident" /\ ~isTopLevelKeyword(TokenText(q))
    THEN Then(parseFieldDef(q), LAMBDA fd :
         parseRecordFields(fd.p, [record EXCEPT !.Fields = Append(@, fd.val)]))
    ELSE Ok(q, record)

parseRecord(q) ==
    Then(expectKeyword(q, "record"), LAMBDA k :
    IF k.p.tok # "Ident"
    THEN Fail(k.p, Errorf("expected record name, got %q at %s", k.p))
    ELSE parseRecordFields(next(k.p),
             [node |-> "Record", Name |-> TokenText(k.p), Position |-> position(q),
              Fields |-> <<>>]))

\* the clause loop of parseTypeDef
RECURSIVE parseTypeDefClauses(_, _)
parseTypeDefClauses(q, typeDef) ==
    IF q.tok # "Ident" THEN Ok(q, typeDef)
    ELSE IF TokenText(q) = "why"
    THEN Then(expect(next(q), ":", "':'"), LAMBDA c :
         IF c.p.tok # "String"
         THEN Fail(c.p, Errorf("expected string after 'why:', got %q at %s", c.p))
         ELSE parseTypeDefClauses(next(c.p), [typeDef EXCEPT !.Why = Trim(c.p)]))
    ELSE IF TokenText(q) = "validate"
    THEN Then(expect(next(q), ":", "':'"), LAMBDA c :
         IF c.p.tok = "String"
         THEN parseTypeDefClauses(next(c.p),
                  [typeDef EXCEPT !.Validation = mapSet(@, "rule", Trim(c.p))])
         ELSE parseTypeDefClauses(c.p, typeDef))
    ELSE Ok(q, typeDef)

parseTypeDef(q) ==
    Then(expectKeyword(q, "type"), LAMBDA k :
    IF k.p.tok # "Ident"
    THEN Fail(k.p, Errorf("expected type name, got %q at %s", k.p))
    ELSE Then(expectKeyword(next(k.p), "as"), LAMBDA a :
         Then(parseType(a.p), LAMBDA b :
         parseTypeDefClauses(b.p,
             [node |-> "TypeDef", Name |-> TokenText(k.p), BaseType |-> b.val,
              Position |-> position(q), Why |-> "", Validation |-> {}]))))

\* returns the File with the declaration appended
parseDefine(q, f) ==
    Then(expectKeyword(q, "define"), LAMBDA k :
    IF k.p.tok # "Ident"
    THEN Fail(k.p, Errorf("expected 'record' or 'type' after 'define', got %q at %s", k.p))
    ELSE IF TokenText(k.p) = "record"
    THEN Then(parseRecord(k.p), LAMBDA rec :
         Ok(rec.p, [f EXCEPT !.Records = Append(@, rec.val)]))
    ELSE IF TokenText(k.p) = "type"
    THEN Then(parseTypeDef(k.p), LAMBDA td :
         Ok(td.p, [f EXCEPT !.TypeDefs = Append(@, td.val)]))
    ELSE Fail(k.p, Errorf("expected 'record' or 'type' after 'define', got %q at %s", k.p)))

(***************************************************************************)
(* Legacy declarations.                                                    *)
(***************************************************************************)
\* parseRelationship once the kind at q has been accepted and read; t follows it
relationshipTarget(q, t) ==
    IF t.tok # "Ident"
    THEN Fail(t, Errorf("expected target model name, got %q at %s", t))
    ELSE Ok(next(t), [node |-> "Relationship", Kind |-> TokenText(q),
                      Target |-> TokenText(t), Position |-> position(q)])

parseRelationship(q) ==
    IF q.tok # "Ident" THEN Fail(q, ErrorfAt("expected relationship keyword at %s", q))
    ELSE IF ~isRelationshipKeyword(TokenText(q))
    THEN Fail(q, Errorf("invalid relationship type %q at %s", q))
    ELSE relationshipTarget(q, next(q))

\* a field that never takes a relationship
fieldRelationshipIgnored(q, field) == Ok(q, field)

\* the optional relationship declaration of parseField
fieldRelationship(q, field) ==
    IF q.tok = "Ident" /\ isRelationshipKeyword(TokenText(q))
    THEN Then(parseRelationship(q), LAMBDA rel :
         Ok(rel.p, [field EXCEPT !.Relationship = rel.val]))
    ELSE Ok(q, field)

parseField(q) ==
    IF q.tok # "Ident" THEN Fail(q, Errorf("expected field name, got %q at %s", q))
    ELSE Then(expect(next(q), ":", "':'"), LAMBDA c :
         Then(parseType(c.p), LAMBDA t :
         fieldRelationship(t.p,
             [node |-> "Field", Name |-> TokenText(q), Type |-> t.val,
              Relationship |-> Nil, Position |-> position(q)])))

\* a field loop that lists the last field first
RECURSIVE parseModelFieldsPrepending(_, _)
parseModelFieldsPrepending(q, model) ==
    IF q.tok # "}" /\ q.tok # "EOF"
    THEN Then(parseField(q), LAMBDA fd :
         parseModelFieldsPrepending(fd.p, [model EXCEPT !.Fields = <<fd.val>> \o @]))
    ELSE Ok(q, model)

\* the field loop of parseModel
RECURSIVE parseModelFields(_, _)
parseModelFields(q, model) ==
    IF q.tok # "}" /\ q.tok # "EOF"
    THEN Then(parseField(q), LAMBDA fd :
         parseModelFields(fd.p, [model EXCEPT !.Fields = Append(@, fd.val)]))
    ELSE Ok(q, model)

parseModel(q) ==
    Then(expectKeyword(q, "model"), LAMBDA k :
    IF k.p.tok # "Ident"
    THEN Fail(k.p, Errorf("expected model name, got %q at %s", k.p))
    ELSE Then(expect(next(k.p), "{", "'{'"), LAMBDA b :
         Then(parseModelFields(b.p,
                  [node |-> "Model", Name |-> TokenText(k.p), Position |-> position(q),
                   Fields |-> <<>>]), LAMBDA m :
         Then(expect(m.p, "}", "'}'"), LAMBDA e :
         Ok(e.p, m.val)))))

\* the optional why clause of parseAssignment
parseAssignmentWhy(q, assignment) ==
    IF q.tok = "Ident" /\ TokenText(q) = "why"
    THEN Then(expect(next(q), ":", "':'"), LAMBDA c :
         IF c.p.tok # "String"
         THEN Fail(c.p, Errorf("expected string after 'why:', got %q at %s", c.p))
         ELSE Ok(next(c.p), [assignment EXCEPT !.Why = Trim(c.p)]))
    ELSE Ok(q, assignment)

\* the optional validate clause of parseAssignment
parseAssignmentValidate(q, assignment) ==
    IF q.tok = "Ident" /\ TokenText(q) = "validate"
    THEN Then(expect(next(q), ":", "':'"), LAMBDA c :
         IF c.p.tok = "String"
         THEN Ok(next(c.p), [assignment EXCEPT !.Validation = mapSet(@, "rule", Trim(c.p))])
         ELSE Ok(c.p, assignment))
    ELSE Ok(q, assignment)

parseAssignment(q) ==
    Then(expectKeyword(q, "assign-use"), LAMBDA k :
    IF k.p.tok # "Ident"
    THEN Fail(k.p, Errorf("expected type name, got %q at %s", k.p))
    ELSE Then(expectKeyword(next(k.p), "as"), LAMBDA a :
         Then(parseType(a.p), LAMBDA b :
         Then(parseAssignmentWhy(b.p,
                  [node |-> "Assignment", TypeName |-> TokenText(k.p), BaseType |-> b.val,
                   Position |-> position(q), Why |-> "", Validation |-> {}]), LAMBDA y :
         parseAssignmentValidate(y.p, y.val)))))

(***************************************************************************)
(* Expressions: primaries and one left-associative comparison tier.        *)
(***************************************************************************)
RECURSIVE parsePrimary(_)
RECURSIVE parseComparison(_)
RECURSIVE parseArguments(_, _)
RECURSIVE parseComparisonRest(_, _)

parseExpression(q) == parseComparison(q)

\* the argument loop of a call in parsePrimary
parseArguments(q, args) ==
    Then(parseExpression(q), LAMBDA arg :
    IF arg.p.tok # "," THEN Ok(arg.p, Append(args, arg.val))
    ELSE parseArguments(next(arg.p), Append(args, arg.val)))

\* parsePrimary after the identifier at q and a "."; m is the parser after the "."
parseMember(q, m) ==
    IF m.tok # "Ident"
    THEN Fail(m, Errorf("expected property name after '.', got %q at %s", m))
    ELSE Ok(next(m),
            [node |-> "Member",
             Object |-> [node |-> "Identifier", Name |-> TokenText(q), Position |-> position(q)],
             Property |-> TokenText(m), Position |-> position(q)])

\* parsePrimary after the identifier at q and a "("; a is the parser after the "("
parseCall(q, a) ==
    Then(IF a.tok # ")" THEN parseArguments(a, <<>>) ELSE Ok(a, <<>>), LAMBDA args :
    Then(expect(args.p, ")", "')'"), LAMBDA c :
    Ok(c.p, [node |-> "Call", Function |-> TokenText(q), Arguments |-> args.val,
             Position |-> position(q)])))

\* parsePrimary after the identifier at q; n is the parser after it
parseIdentifier(q, n) ==
    IF n.tok = "." THEN parseMember(q, next(n))
    ELSE IF n.tok = "(" THEN parseCall(q, next(n))
    ELSE Ok(n, [node |-> "Identifier", Name |-> TokenText(q), Position |-> position(q)])

parsePrimary(q) ==
    IF q.tok = "Ident" THEN parseIdentifier(q, next(q))
    ELSE IF q.tok = "String"
    THEN Ok(next(q), [node |-> "Literal", Value |-> Trim(q), Position |-> position(q)])
    ELSE IF q.tok \in {"Int", "Float"}
    THEN Ok(next(q), [node |-> "Literal", Value |-> TokenText(q), Position |-> position(q)])
    ELSE Fail(q, Errorf("unexpected token in expression: %q at %s", q))

\* "not" has been read; n is the parser after it
notOperator(n) ==
    IF n.tok = "Ident" /\ TokenText(n) = "contains"
    THEN [p |-> next(n), operator |-> "not contains"]
    ELSE [p |-> n, operator |-> "not"]

\* the operator read by one turn of the comparison loop, and the parser after it
comparisonOperator(q) ==
    IF q.tok = "Ident"
    THEN IF TokenText(q) = "not" THEN notOperator(next(q))
         ELSE [p |-> next(q), operator |-> TokenText(q)]
    ELSE [p |-> next(q), operator |-> q.tok]

\* a right operand that takes in the comparisons which follow it
comparisonRightNested(left, op) ==
    Then(parseComparison(op.p), LAMBDA right :
    Ok(right.p,
       [node |-> "Binary", Left |-> left, Operator |-> op.operator, Right |-> right.val,
        Position |-> left.Position]))

\* the right operand of one turn of the comparison loop, and the loop's next turn
comparisonRight(left, op) ==
    Then(parsePrimary(op.p), LAMBDA right :
    parseComparisonRest(right.p,
        [node |-> "Binary", Left |-> left, Operator |-> op.operator, Right |-> right.val,
         Position |-> left.Position]))

\* a comparison loop that takes the arithmetic symbols for operators as well
parseComparisonRestArithmetic(q, left) ==
    IF q.tok \in {"<", ">", "=", "+", "-", "*", "/"}
       \/ (q.tok = "Ident" /\ TokenText(q) \in {"contains", "not"})
    THEN comparisonRight(left, comparisonOperator(q))
    ELSE Ok(q, left)

\* the loop of parseComparison
parseComparisonRest(q, left) ==
    IF q.tok \in {"<", ">", "="}
       \/ (q.tok = "Ident" /\ TokenText(q) \in {"contains", "not"})
    THEN comparisonRight(left, comparisonOperator(q))
    ELSE Ok(q, left)

parseComparison(q) ==
    Then(parsePrimary(q), LAMBDA left : parseComparisonRest(left.p, left.val))

(***************************************************************************)
(* Statements.                                                             *)
(***************************************************************************)
parseReturnStatement(q) ==
    Then(expectKeyword(q, "return"), LAMBDA k :
    IF k.p.tok # "EOF" /\ ~(k.p.tok = "Ident" /\ isStatementKeyword(TokenText(k.p)))
    THEN Then(parseExpression(k.p), LAMBDA value :
         Ok(value.p, [node |-> "Return", Value |-> value.val, Position |-> position(q)]))
    ELSE Ok(k.p, [node |-> "Return", Value |-> Nil, Position |-> position(q)]))

parseSetStatement(q) ==
    Then(expectKeyword(q, "set"), LAMBDA k :
    IF k.p.tok # "Ident"
    THEN Fail(k.p, Errorf("expected variable name after 'set', got %q at %s", k.p))
    ELSE Then(expect(next(k.p), "=", "'='"), LAMBDA e :
         Then(parseExpression(e.p), LAMBDA value :
         Ok(value.p, [node |-> "Assign", Variable |-> TokenText(k.p), Value |-> value.val,
                      Position |-> position(q)]))))

\* the field-assignment loop of parseCreateStatement
RECURSIVE parseCreateAssignmentsGreedy(_, _)
parseCreateAssignmentsGreedy(q, assignments) ==
    IF q.tok = "Ident"
    THEN Then(expect(next(q), "=", "'='"), LAMBDA e :
         Then(parseExpression(e.p), LAMBDA value :
         parseCreateAssignmentsGreedy(value.p,
             Append(assignments,
                    [node |-> "FieldAssignment", Field |-> TokenText(q),
                     Value |-> value.val, Position |-> position(q)]))))
    ELSE Ok(q, assignments)

RECURSIVE parseCreateAssignments(_, _)
parseCreateAssignments(q, assignments) ==
    IF q.tok = "Ident" /\ ~isStatementKeyword(TokenText(q)) /\ ~isTopLevelKeyword(TokenText(q))
    THEN Then(expect(next(q), "=", "'='"), LAMBDA e :
         Then(parseExpression(e.p), LAMBDA value :
         parseCreateAssignments(value.p,
             Append(assignments,
                    [node |-> "FieldAssignment", Field |-> TokenText(q),
                     Value |-> value.val, Position |-> position(q)]))))
    ELSE Ok(q, assignments)

parseCreateStatement(q) ==
    Then(expectKeyword(q, "create"), LAMBDA k :
    IF k.p.tok # "Ident"
    THEN Fail(k.p, Errorf("expected type name after 'create', got %q at %s", k.p))
    ELSE Then(expectKeyword(next(k.p), "with"), LAMBDA w :
         Then(expect(w.p, ":", "':'"), LAMBDA c :
         Then(parseCreateAssignments(c.p, <<>>), LAMBDA assignments :
         Ok(assignments.p, [node |-> "Create", TypeName |-> TokenText(k.p),
                            Assignments |-> assignments.val, Position |-> position(q)])))))

parseFailStatement(q) ==
    Then(expectKeyword(q, "fail"), LAMBDA k :
    IF k.p.tok # "String"
    THEN Fail(k.p, Errorf("expected error message string after 'fail', got %q at %s", k.p))
    ELSE Ok(next(k.p), [node |-> "Fail", Message |-> Trim(k.p), Position |-> position(q)]))

\* strings.Join(parts, " ")
RECURSIVE Join(_)
Join(parts) ==
    IF parts = <<>> THEN ""
    ELSE IF Len(parts) = 1 THEN parts[1]
    ELSE parts[1] \o " " \o Join(Tail(parts))

\* the identifier loop of parseUseStatement
RECURSIVE parseUseParts(_, _)
parseUseParts(q0, parts) ==
    Bind(q0, LAMBDA q :
    IF q.tok = "Ident" THEN parseUseParts(next(q), Append(parts, TokenText(q)))
    ELSE Ok(q, parts))

parseUseStatement(q) ==
    Then(expectKeyword(q, "use"), LAMBDA k :
    Then(parseUseParts(k.p, <<>>), LAMBDA u :
    Ok(u.p, [node |-> "Assign", Variable |-> "__use__",
             Value |-> [node |-> "Literal", Value |-> Join(u.val), Position |-> position(q)],
             Position |-> position(q)])))

RECURSIVE parseStatement(_)
RECURSIVE parseIfStatement(_)

\* a statement parser that refuses a token that begins no statement
parseStatementStrict(q) ==
    IF q.tok = "Ident" /\ TokenText(q) = "if" THEN parseIfStatement(q)
    ELSE IF q.tok = "Ident" /\ TokenText(q) = "return" THEN parseReturnStatement(q)
    ELSE IF q.tok = "Ident" /\ TokenText(q) = "set" THEN parseSetStatement(q)
    ELSE IF q.tok = "Ident" /\ TokenText(q) = "create" THEN parseCreateStatement(q)
    ELSE IF q.tok = "Ident" /\ TokenText(q) = "fail" THEN parseFailStatement(q)
    ELSE IF q.tok = "Ident" /\ TokenText(q) = "use" THEN parseUseStatement(q)
    ELSE Fail(q, Errorf("unexpected token %q at %s", q))

parseStatement(q) ==
    IF q.tok = "Ident" /\ TokenText(q) = "if" THEN parseIfStatement(q)
    ELSE IF q.tok = "Ident" /\ TokenText(q) = "return" THEN parseReturnStatement(q)
    ELSE IF q.tok = "Ident" /\ TokenText(q) = "set" THEN parseSetStatement(q)
    ELSE IF q.tok = "Ident" /\ TokenText(q) = "create" THEN parseCreateStatement(q)
    ELSE IF q.tok = "Ident" /\ TokenText(q) = "fail" THEN parseFailStatement(q)
    ELSE IF q.tok = "Ident" /\ TokenText(q) = "use" THEN parseUseStatement(q)
    ELSE Ok(next(q), Nil)

\* the optional else clause of parseIfStatement
parseElse(q, ifStmt) ==
    IF q.tok = "Ident" /\ TokenText(q) = "else"
    THEN Then(parseStatement(next(q)), LAMBDA elseStmt :
         Ok(elseStmt.p, [ifStmt EXCEPT !.ElseStmt = elseStmt.val]))
    ELSE Ok(q, ifStmt)

parseIfStatement(q) ==
    Then(expectKeyword(q, "if"), LAMBDA k :
    Then(parseExpression(k.p), LAMBDA condition :
    Then(expectKeyword(condition.p, "then"), LAMBDA t :
    Then(parseStatement(t.p), LAMBDA thenStmt :
    parseElse(thenStmt.p,
        [node |-> "If", Condition |-> condition.val, ThenStmt |-> thenStmt.val,
         ElseStmt |-> Nil, Position |-> position(q)])))))

(***************************************************************************)
(* Functions.                                                              *)
(***************************************************************************)
AIAnnotationWords ==
    {"ai-feedback", "ai-suggests", "ai-security", "ai-performance",
     "ai-decision-accepted", "ai-decision-rejected"}

isAIAnnotation(keyword) ==
    keyword \in AIAnnotationWords \/ keyword \in {ann \o ":" : ann \in AIAnnotationWords}

\* strings.TrimPrefix(text, "ai-") on the chunks of a token text
trimAiPrefix(cs) ==
    IF Len(cs) >= 2 /\ cs[1] = "ai" /\ cs[2] = "-" THEN SubSeq(cs, 3, Len(cs)) ELSE cs

\* strings.TrimSuffix(text, ":") on the chunks of a token text
trimColonSuffix(cs) ==
    IF cs # <<>> /\ cs[Len(cs)] = ":" THEN SubSeq(cs, 1, Len(cs) - 1) ELSE cs

parseAIAnnotation(q) ==
    IF ~isAIAnnotation(TokenText(q))
    THEN Fail(q, Errorf("expected AI annotation, got %q at %s", q))
    ELSE Then(expect(next(q), ":", "':'"), LAMBDA c :
         IF c.p.tok # "String"
         THEN Fail(c.p, Errorf("expected string after AI annotation, got %q at %s", c.p))
         ELSE Ok(next(c.p),
                 [node |-> "AIAnnotation",
                  Type |-> Concat(trimColonSuffix(trimAiPrefix(q.scanner.text))),
                  Content |-> Trim(c.p), Position |-> position(q)]))

\* the annotation loop of parseFunction
RECURSIVE parseAIAnnotations(_, _)
parseAIAnnotations(q, annotations) ==
    IF q.tok = "Ident" /\ isAIAnnotation(TokenText(q))
    THEN Then(parseAIAnnotation(q), LAMBDA a :
         parseAIAnnotations(a.p, Append(annotations, a.val)))
    ELSE Ok(q, annotations)

parseNativeBlock(q) ==
    IF q.tok # "Ident" THEN Fail(q, ErrorfAt("expected native block type at %s", q))
    ELSE IF TokenText(q) \notin {"go-native", "ts-native"}
    THEN Fail(q, Errorf("invalid native block type %q at %s", q))
    ELSE Then(expect(next(q), ":", "':'"), LAMBDA c :
         IF c.p.tok # "String"
         THEN Fail(c.p, ErrorfAt("expected native code string at %s", c.p))
         ELSE Ok(next(c.p),
                 [node |-> "NativeBlock",
                  Language |-> IF TokenText(q) = "go-native" THEN "go" ELSE "ts",
                  Code |-> Trim(c.p), Position |-> position(q)]))

parseParameter(q) ==
    IF q.tok # "Ident" THEN Fail(q, Errorf("expected parameter name, got %q at %s", q))
    ELSE Then(expect(next(q), ":", "':'"), LAMBDA c :
         Then(parseType(c.p), LAMBDA t :
         Ok(t.p, [node |-> "Parameter", Name |-> TokenText(q), Type |-> t.val,
                  Position |-> position(q)])))

\* the loop of parseParameterList
RECURSIVE parseParameters(_, _)
parseParameters(q, parameters) ==
    Then(parseParameter(q), LAMBDA param :
    IF param.p.tok # "," THEN Ok(param.p, Append(parameters, param.val))
    ELSE parseParameters(next(param.p), Append(parameters, param.val)))

parseParameterList(q) ==
    IF q.tok = ")" THEN Ok(q, <<>>) ELSE parseParameters(q, <<>>)

\* the branches of an If, as far as it has them
branches(stmt) ==
    IF stmt.node # "If" THEN <<>>
    ELSE <<stmt.ThenStmt>> \o (IF stmt.ElseStmt # Nil THEN <<stmt.ElseStmt>> ELSE <<>>)

\* a body that lists the branches of an If after the If as well
appendWithBranches(body, stmt) ==
    IF stmt # Nil THEN [body EXCEPT !.Statements = Append(@, stmt) \o branches(stmt)] ELSE body

\* body.Statements = append(body.Statements, stmt) unless stmt is nil
appendStatement(body, stmt) ==
    IF stmt # Nil THEN [body EXCEPT !.Statements = Append(@, stmt)] ELSE body

\* the statement loop of parseFunctionBody
RECURSIVE parseBodyStatements(_, _)
parseBodyStatements(q, body) ==
    IF q.tok # "EOF" /\ ~(q.tok = "Ident" /\ isTopLevelKeyword(TokenText(q)))
    THEN IF q.tok = "Ident" /\ TokenText(q) \in {"go-native", "ts-native"}
         THEN Then(parseNativeBlock(q), LAMBDA nativeBlock :
              parseBodyStatements(nativeBlock.p,
                  [body EXCEPT !.NativeBlocks = Append(@, nativeBlock.val)]))
         ELSE Then(parseStatement(q), LAMBDA stmt :
              parseBodyStatements(stmt.p, appendStatement(body, stmt.val)))
    ELSE Ok(q, body)

parseFunctionBody(q) ==
    parseBodyStatements(q, [node |-> "FunctionBody", Position |-> position(q),
                            Statements |-> <<>>, NativeBlocks |-> <<>>])

\* the optional return type of parseFunction
parseReturns(q) ==
    IF q.tok = "Ident" /\ TokenText(q) = "returns" THEN parseType(next(q)) ELSE Ok(q, Nil)

\* parseFunction from the why clause on
parseWhyDoBody(q, function) ==
    Then(expectKeyword(q, "why"), LAMBDA y :
    Then(expect(y.p, ":", "':'"), LAMBDA c :
    IF c.p.tok # "String"
    THEN Fail(c.p, Errorf("expected string after 'why:', got %q at %s", c.p))
    ELSE Then(expectKeyword(next(c.p), "do"), LAMBDA d :
         Then(expect(d.p, ":", "':'"), LAMBDA e :
         Then(parseFunctionBody(e.p), LAMBDA body :
         Ok(body.p, [function EXCEPT !.Why = Trim(c.p), !.Body = body.val]))))))

parseFunction(q) ==
    Then(expectKeyword(q, "function"), LAMBDA k :
    IF k.p.tok # "Ident"
    THEN Fail(k.p, Errorf("expected function name, got %q at %s", k.p))
    ELSE Then(expect(next(k.p), "(", "'('"), LAMBDA o :
         Then(parseParameterList(o.p), LAMBDA parameters :
         Then(expect(parameters.p, ")", "')'"), LAMBDA c :
         Then(parseReturns(c.p), LAMBDA returnType :
         Then(parseAIAnnotations(returnType.p, <<>>), LAMBDA annotations :
         parseWhyDoBody(annotations.p,
             [node |-> "Function", Name |-> TokenText(k.p), Parameters |-> parameters.val,
              ReturnType |-> returnType.val, AIAnnotations |-> annotations.val,
              Why |-> "", Body |-> Nil, Position |-> position(q)])))))))

(***************************************************************************)
(* parseFile.                                                              *)
(***************************************************************************)
newFile(q) ==
    [node |-> "File", Module |-> Nil, Records |-> <<>>, Models |-> <<>>,
     Functions |-> <<>>, TypeDefs |-> <<>>, Assignments |-> <<>>, Position |-> position(q)]

\* the optional module declaration at the head of parseFile
parseFileModule(q) ==
    IF q.tok = "Ident" /\ TokenText(q) = "module"
    THEN Then(parseModule(q), LAMBDA module :
         Ok(module.p, [newFile(q) EXCEPT !.Module = module.val]))
    ELSE Ok(q, newFile(q))

\* a declaration loop that passes over a token that begins no declaration
parseDeclarationSkipping(q, f) ==
    IF q.tok = "Ident" /\ TokenText(q) = "define" THEN parseDefine(q, f)
    ELSE IF q.tok = "Ident" /\ TokenText(q) = "function"
    THEN Then(parseFunction(q), LAMBDA function :
         Ok(function.p, [f EXCEPT !.Functions = Append(@, function.val)]))
    ELSE IF q.tok = "Ident" /\ TokenText(q) = "model"
    THEN Then(parseModel(q), LAMBDA model :
         Ok(model.p, [f EXCEPT !.Models = Append(@, model.val)]))
    ELSE Ok(next(q), f)

\* one turn of the declaration loop of parseFile
parseDeclaration(q, f) ==
    IF q.tok = "Ident" /\ TokenText(q) = "define" THEN parseDefine(q, f)
    ELSE IF q.tok = "Ident" /\ TokenText(q) = "function"
    THEN Then(parseFunction(q), LAMBDA function :
         Ok(function.p, [f EXCEPT !.Functions = Append(@, function.val)]))
    ELSE IF q.tok = "Ident" /\ TokenText(q) = "model"
    THEN Then(parseModel(q), LAMBDA model :
         Ok(model.p, [f EXCEPT !.Models = Append(@, model.val)]))
    ELSE IF q.tok = "Ident" /\ TokenText(q) = "assign-use"
    THEN Then(parseAssignment(q), LAMBDA assignment :
         Ok(assignment.p, [f EXCEPT !.Assignments = Append(@, assignment.val)]))
    ELSE Fail(q, Errorf("unexpected token %q at %s", q))

\* the declaration loop of parseFile, run to its end
RECURSIVE parseDeclarations(_, _)
parseDeclarations(q, f) ==
    IF q.tok # "EOF"
    THEN Then(parseDeclaration(q, f), LAMBDA d : parseDeclarations(d.p, d.val))
    ELSE Ok(q, f)

parseFile(q) == Then(parseFileModule(q), LAMBDA m : parseDeclarations(m.p, m.val))

\* the (File, error) pair a parse function hands back
returned(res) == [file |-> res.val, err |-> res.err]

\* what ParseWithFilename(src, fname) returns, as one call
Returns(src, fname) == returned(parseFile(next(newParser(src, fname))))

\* Returns(strings.NewReader(s)), which is ParseWithFilename with no file name
ParseString(s) == Returns(s, "")

(***************************************************************************)
(* Inputs: bounded families of source texts.                               *)
(***************************************************************************)
MaxFields == 2

MaxStmts == 2

MaxDecls == 2

SeqsUpTo(S, n) == UNION {[1..k -> S] : k \in 0..n}

RECURSIVE Flatten(_)
Flatten(ss) == IF ss = <<>> THEN <<>> ELSE Head(ss) \o Flatten(Tail(ss))

\* declaration names, field names and type names; keywords are identifiers too
DeclNames == {"User", "model"}

FieldNames == {"id", "name", "has_one", "function"}

TypeNames == {"Int", "String"}

FieldLists == SeqsUpTo(FieldNames \X TypeNames, MaxFields)

FieldLine(fd) == <<fd[1], ":", " ", fd[2], "\n">>

FieldLines(fs) == Flatten([i \in 1..Len(fs) |-> FieldLine(fs[i])])

RecordSrc(N, fs) == <<"define", " ", "record", " ", N, "\n">> \o FieldLines(fs)

ModelSrc(N, fs) == <<"model", " ", N, " ", "{", "\n">> \o FieldLines(fs) \o <<"}", "\n">>

DataSources ==
    {RecordSrc(N, fs) : N \in DeclNames, fs \in FieldLists}
        \cup {ModelSrc(N, fs) : N \in DeclNames, fs \in FieldLists}

\* function headers: complete, or with a part of the why/do clauses missing
HeaderKinds == {"full", "noWhy", "noWhyString", "noDo", "noDoColon"}

WhyDo(kind) ==
    CASE kind = "full" -> <<" ", "why", ":", " ", "\"", "age", " ", "check", "\"", " ", "do", ":">>
      [] kind = "noWhy" -> <<" ", "do", ":">>
      [] kind = "noWhyString" -> <<" ", "why", ":", " ", "do", ":">>
      [] kind = "noDo" -> <<" ", "why", ":", " ", "\"", "age", " ", "check", "\"">>
      [] kind = "noDoColon" -> <<" ", "why", ":", " ", "\"", "age", " ", "check", "\"", " ", "do">>

Header(kind, returns) ==
    <<"function", " ", "check", "(", "age", ":", " ", "Int", ")">>
        \o (IF returns THEN <<" ", "returns", " ", "Int">> ELSE <<>>)
        \o WhyDo(kind) \o <<"\n">>

StmtKinds == {"ifElse", "ifNoThen", "returnValue", "return", "use", "comment"}

StmtText(kind) ==
    CASE kind = "ifElse" ->
             <<"if", " ", "age", " ", ">", " ", "18", " ", "then", " ", "set", " ", "result",
               " ", "=", " ", "1", " ", "else", " ", "set", " ", "result", " ", "=", " ", "0",
               "\n">>
      [] kind = "ifNoThen" ->
             <<"if", " ", "x", " ", ">", " ", "0", " ", "set", " ", "y", " ", "=", " ", "1",
               "\n">>
      [] kind = "returnValue" -> <<"return", " ", "result", "\n">>
      [] kind = "return" -> <<"return", "\n">>
      [] kind = "use" -> <<"use", " ", "bcrypt", " ", "algorithm", "\n">>
      [] kind = "comment" -> <<"/", "/", " ", "note", "\n">>

Body(kinds) == Flatten([i \in 1..Len(kinds) |-> StmtText(kinds[i])])

FunctionSrc(kind, returns, kinds) == Header(kind, returns) \o Body(kinds)

FunctionSources ==
    {FunctionSrc(h, rt, b) : h \in HeaderKinds, rt \in BOOLEAN,
                             b \in SeqsUpTo(StmtKinds, MaxStmts)}

\* if A > K then set V = E1 else set V = E2, then return V
CondNames == {"age", "not"}

CondLiterals == {"18", "0"}

VarNames == {"result", "function"}

ValueTexts == {<<"1">>, <<"x">>, <<"\"", "w", "\"">>}

ControlFlowSrc(A, K, V, E1, E2) ==
    Header("full", TRUE)
        \o <<"if", " ", A, " ", ">", " ", K, " ", "then", " ", "set", " ", V, " ", "=", " ">>
        \o E1 \o <<" ", "else", " ", "set", " ", V, " ", "=", " ">> \o E2
        \o <<"\n", "return", " ", V>>

ControlFlowSources ==
    {ControlFlowSrc(A, K, V, E1, E2) :
         A \in CondNames, K \in CondLiterals, V \in VarNames,
         E1 \in ValueTexts, E2 \in ValueTexts}

\* whole files: sequences of top-level items
DeclKinds ==
    {"module", "record", "recordOrder", "model", "typedef", "function", "functionReturn",
     "functionNoWhy", "assign", "comment"}

DeclText(kind) ==
    CASE kind = "module" -> <<"module", " ", "M", "\n">>
      [] kind = "record" -> <<"define", " ", "record", " ", "User", "\n", "id", ":", " ", "Int", "\n">>
      [] kind = "recordOrder" ->
             <<"define", " ", "record", " ", "Order", "\n", "name", ":", " ", "String", "\n">>
      [] kind = "model" -> <<"model", " ", "User", " ", "{", " ", "id", ":", " ", "Int", " ", "}", "\n">>
      [] kind = "typedef" ->
             <<"define", " ", "type", " ", "Email", " ", "as", " ", "String", " ", "why", ":",
               " ", "\"", "w", "\"", "\n">>
      [] kind = "function" ->
             <<"function", " ", "f", "(", ")", " ", "why", ":", " ", "\"", "w", "\"", " ",
               "do", ":", " ", "return", " ", "result", "\n">>
      [] kind = "functionReturn" ->
             <<"function", " ", "f", "(", ")", " ", "why", ":", " ", "\"", "w", "\"", " ",
               "do", ":", "\n", "return", "\n">>
      [] kind = "functionNoWhy" ->
             <<"function", " ", "g", "(", ")", " ", "do", ":", " ", "return", " ", "1", "\n">>
      [] kind = "assign" -> <<"assign", "-", "use", " ", "Email", " ", "as", " ", "String", "\n">>
      [] kind = "comment" -> <<"/", "/", " ", "note", "\n">>

FileSrc(kinds) == Flatten([i \in 1..Len(kinds) |-> DeclText(kinds[i])])

FileSources == {FileSrc(ks) : ks \in SeqsUpTo(DeclKinds, MaxDecls)}

\* assign-use Name as Base, alone or with its why and validate clauses
AssignNames == {"Email", "User"}

AssignClauses ==
    {<<>>, <<" ", "why", ":", " ", "\"", "w", "\"">>,
     <<" ", "why", ":", " ", "\"", "w", "\"", " ", "validate", ":", " ", "\"", "x", "\"">>}

AssignSrc(N, B, clauses) ==
    <<"assign", "-", "use", " ", N, " ", "as", " ", B>> \o clauses \o <<"\n">>

AssignSources ==
    {AssignSrc(N, B, cl) : N \in AssignNames, B \in TypeNames, cl \in AssignClauses}

\* functions with AI annotation clauses between returns and why
MaxAnnotations == 2

AnnotationKinds == {"feedback", "security"}

AnnotationText(kind) == <<" ", "ai", "-", kind, ":", " ", "\"", "x", "\"">>

AnnotatedSrc(returns, anns) ==
    <<"function", " ", "check", "(", "age", ":", " ", "Int", ")">>
        \o (IF returns THEN <<" ", "returns", " ", "Int">> ELSE <<>>)
        \o Flatten([i \in 1..Len(anns) |-> AnnotationText(anns[i])])
        \o WhyDo("full") \o <<"\n", "return", " ", "result", "\n">>

AnnotatedSources ==
    {AnnotatedSrc(rt, anns) : rt \in BOOLEAN, anns \in SeqsUpTo(AnnotationKinds, MaxAnnotations)}

\* function bodies of statements, native blocks and stray tokens
BodyKinds == {"goNative", "tsNative", "set", "returnValue", "stray"}

BodyText(kind) ==
    CASE kind = "goNative" -> <<"go", "-", "native", ":", " ", "\"", "x", "\"", "\n">>
      [] kind = "tsNative" -> <<"ts", "-", "native", ":", " ", "\"", "y", "\"", "\n">>
      [] kind = "set" -> <<"set", " ", "y", " ", "=", " ", "1", "\n">>
      [] kind = "returnValue" -> <<"return", " ", "result", "\n">>
      [] kind = "stray" -> <<"x", " ", "+", "\n">>

BodySrc(kinds) ==
    Header("full", FALSE) \o Flatten([i \in 1..Len(kinds) |-> BodyText(kinds[i])])

BodySources == {BodySrc(ks) : ks \in SeqsUpTo(BodyKinds, MaxStmts)}

\* set y = x op 1 op y ...: an operand, then operators each with an operand
MaxOps == 2

OperatorTexts ==
    {<<"<">>, <<">">>, <<"=">>, <<"contains">>, <<"not", " ", "contains">>, <<"not">>,
     <<"+">>, <<"-">>, <<"*">>, <<"/">>}

Operands == <<"1", "y", "0", "x">>

ExprSrc(ops) ==
    Header("full", FALSE) \o <<"set", " ", "y", " ", "=", " ", "x">>
        \o Flatten([i \in 1..Len(ops) |-> <<" ">> \o ops[i] \o <<" ", Operands[i]>>])
        \o <<"\n">>

ExprSources == {ExprSrc(ops) : ops \in SeqsUpTo(OperatorTexts, MaxOps)}

\* if x > 0 then <branch> [else <branch>], a branch being a statement or a
\* token that begins none
BranchKinds == {"set", "return", "fail", "create", "stray"}

BranchText(kind) ==
    CASE kind = "set" -> <<"set", " ", "y", " ", "=", " ", "1">>
      [] kind = "return" -> <<"return", " ", "result">>
      [] kind = "fail" -> <<"fail", " ", "\"", "w", "\"">>
      [] kind = "create" ->
             <<"create", " ", "User", " ", "with", ":", " ", "name", " ", "=", " ", "1">>
      [] kind = "stray" -> <<"y">>
      [] kind = "none" -> <<>>

IfSrc(then, else) ==
    Header("full", FALSE)
        \o <<"if", " ", "x", " ", ">", " ", "0", " ", "then", " ">> \o BranchText(then)
        \o (IF else = "none" THEN <<>> ELSE <<" ", "else", " ">> \o BranchText(else))
        \o <<"\n">>

IfSources == {IfSrc(t, e) : t \in BranchKinds, e \in BranchKinds \cup {"none"}}

\* create User with: f1 = e1 ... fn = en, then a statement, a declaration or
\* nothing; or the same without "with", or without the ":" after it
CreateFields == {"name", "id"}
CreateValues == {"1", "age"}
CreateAssignments == SeqsUpTo(CreateFields \X CreateValues, MaxFields)
CreateFollowers == {"none", "return", "set", "create", "record", "function", "model"}
CreateForms == {"full", "noWith", "noColon"}

CreateWith(form) ==
    CASE form = "full" -> <<"create", " ", "User", " ", "with", ":", "\n">>
      [] form = "noWith" -> <<"create", " ", "User", ":", "\n">>
      [] form = "noColon" -> <<"create", " ", "User", " ", "with", "\n">>

CreateLine(a) == <<a[1], " ", "=", " ", a[2], "\n">>

FollowerText(follower) ==
    CASE follower = "none" -> <<>>
      [] follower = "return" -> <<"return", " ", "result", "\n">>
      [] follower = "set" -> <<"set", " ", "y", " ", "=", " ", "1", "\n">>
      [] follower = "create" ->
             <<"create", " ", "Order", " ", "with", ":", " ", "id", " ", "=", " ", "1", "\n">>
      [] follower \in {"record", "function", "model"} -> DeclText(follower)

CreateSrc(form, as, follower) ==
    Header("full", FALSE) \o CreateWith(form)
        \o Flatten([i \in 1..Len(as) |-> CreateLine(as[i])]) \o FollowerText(follower)

CreateSources ==
    {CreateSrc(form, as, follower) :
         form \in CreateForms, as \in CreateAssignments, follower \in CreateFollowers}

\* a record with one field that is not "name: Type", among well-formed fields
\* and before another declaration
MalformedForms == {"noColon", "noType", "literalType"}
MalformedAfter == {"none", "field", "record", "function"}

MalformedField(name, form) ==
    CASE form = "noColon" -> <<name, " ", "Int", "\n">>
      [] form = "noType" -> <<name, ":", "\n">>
      [] form = "literalType" -> <<name, ":", " ", "1", "\n">>

MalformedRecordSrc(first, name, form, after) ==
    <<"define", " ", "record", " ", "User", "\n">>
        \o (IF first THEN FieldLine(<<"name", "String">>) ELSE <<>>)
        \o MalformedField(name, form)
        \o (CASE after = "none" -> <<>>
              [] after = "field" -> FieldLine(<<"name", "String">>)
              [] after = "record" -> DeclText("recordOrder")
              [] after = "function" -> DeclText("function"))

MalformedRecordSources ==
    {MalformedRecordSrc(first, name, form, after) :
         first \in BOOLEAN, name \in FieldNames, form \in MalformedForms,
         after \in MalformedAfter}

\* well-formed function declarations one after another, each ending with a
\* statement of the given kind
EndKinds == {"returnValue", "return", "use", "set"}
FunctionNameList == <<"f", "g", "check", "x">>

EndText(kind) ==
    CASE kind \in {"returnValue", "return", "use"} -> StmtText(kind)
      [] kind = "set" -> <<"set", " ", "y", " ", "=", " ", "1", "\n">>

EndingFunction(name, kind) ==
    <<"function", " ", name, "(", ")", " ", "why", ":", " ", "\"", "w", "\"", " ", "do", ":",
      "\n">> \o EndText(kind)

FunctionsSrc(kinds) ==
    Flatten([i \in 1..Len(kinds) |-> EndingFunction(FunctionNameList[i], kinds[i])])

FunctionsSources == {FunctionsSrc(kinds) : kinds \in SeqsUpTo(EndKinds, MaxDecls)}

\* set y = a op1 b op2 c, with primaries of every kind for a, b and c
PrimaryKinds == <<"identifier", "member", "call", "int", "string">>

PrimaryText(kind) ==
    CASE kind = "identifier" -> <<"x">>
      [] kind = "member" -> <<"x", ".", "name">>
      [] kind = "call" -> <<"f", "(", "y", ")">>
      [] kind = "int" -> <<"1">>
      [] kind = "string" -> <<"\"", "w", "\"">>

ComparisonTexts ==
    {<<"<">>, <<">">>, <<"=">>, <<"contains">>, <<"not", " ", "contains">>, <<"not">>}

OperandTriples ==
    {<<PrimaryKinds[i], PrimaryKinds[(i % Len(PrimaryKinds)) + 1],
       PrimaryKinds[((i + 1) % Len(PrimaryKinds)) + 1]>> : i \in 1..Len(PrimaryKinds)}

ChainSrc(abc, op1, op2) ==
    Header("full", FALSE) \o <<"set", " ", "y", " ", "=", " ">>
        \o PrimaryText(abc[1]) \o <<" ">> \o op1 \o <<" ">>
        \o PrimaryText(abc[2]) \o <<" ">> \o op2 \o <<" ">>
        \o PrimaryText(abc[3]) \o <<"\n">>

ChainSources ==
    {ChainSrc(abc, op1, op2) :
         abc \in OperandTriples, op1 \in ComparisonTexts, op2 \in ComparisonTexts}

\* if C then return else S
ElseKinds == {"set", "return", "fail", "create"}
Conditions == {<<"x", " ", ">", " ", "0">>, <<"x">>}

ReturnElseSrc(cond, else) ==
    Header("full", FALSE) \o <<"if", " ">> \o cond
        \o <<" ", "then", " ", "return", " ", "else", " ">> \o BranchText(else) \o <<"\n">>

ReturnElseSources == {ReturnElseSrc(cond, else) : cond \in Conditions, else \in ElseKinds}

\* programs that use every construct with a loop, and every text that
\* stops short of their end
DataProgram ==
    <<"define", " ", "record", " ", "User", "\n", "id", ":", " ", "Int", "\n",
      "define", " ", "type", " ", "Email", " ", "as", " ", "String", " ",
      "why", ":", " ", "\"", "w", "\"", " ", "validate", ":", " ", "\"", "w", "\"", "\n">>

ModelProgram ==
    <<"model", " ", "Order", " ", "{", " ", "id", ":", " ", "Int", " ",
      "belongs_to", " ", "User", " ", "}", "\n">>

ParametersProgram ==
    <<"function", " ", "f", "(", "x", ":", " ", "Int", ",", " ", "y", ":", " ", "Int", ")",
      " ", "why", ":", " ", "\"", "w", "\"", " ", "do", ":", "\n", "return", "\n">>

FunctionProgram ==
    <<"function", " ", "f", "(", ")", " ", "why", ":", " ", "\"", "w", "\"", " ", "do", ":", "\n",
      "if", " ", "x", " ", ">", " ", "f", "(", "y", ",", " ", "1", ")", " ", "then", " ",
      "set", " ", "y", " ", "=", " ", "x", ".", "name", "\n">>

StatementProgram ==
    <<"function", " ", "f", "(", ")", " ", "why", ":", " ", "\"", "w", "\"", " ", "do", ":", "\n",
      "create", " ", "User", " ", "with", ":", " ", "name", " ", "=", " ", "1", "\n",
      "use", " ", "bcrypt", " ", "algorithm", "\n",
      "return", " ", "x", " ", "not", " ", "contains", " ", "\"", "w", "\"", "\n">>

Prefixes(src) == {SubSeq(src, 1, k) : k \in 0..Len(src)}

TruncatedSources ==
    Prefixes(DataProgram) \cup Prefixes(ModelProgram) \cup Prefixes(ParametersProgram)
        \cup Prefixes(FunctionProgram) \cup Prefixes(StatementProgram)

\* statements of every kind, one to a line, indented or not; a use phrase
\* comes last
PositionKinds == {"set", "if", "create", "use"}
Indents == {<<>>, <<" ", " ">>}

PositionText(kind) ==
    CASE kind = "set" ->
             <<"set", " ", "y", " ", "=", " ", "x", ".", "name", " ", ">", " ", "f", "(", "y", ")">>
      [] kind = "if" ->
             <<"if", " ", "x", " ", ">", " ", "0", " ", "then", " ", "return", " ", "\"", "w", "\"",
               " ", "else", " ", "fail", " ", "\"", "w", "\"">>
      [] kind = "create" ->
             <<"create", " ", "User", " ", "with", ":", " ", "name", " ", "=", " ", "1">>
      [] kind = "use" -> <<"use", " ", "bcrypt", " ", "algorithm">>

PositionLists ==
    {kinds \in SeqsUpTo(PositionKinds, MaxStmts) :
         \A i \in 1..(Len(kinds) - 1) : kinds[i] # "use"}

PositionSrc(indent, kinds) ==
    Header("full", FALSE)
        \o Flatten([i \in 1..Len(kinds) |-> indent \o PositionText(kinds[i]) \o <<"\n">>])

PositionSources == {PositionSrc(indent, kinds) : indent \in Indents, kinds \in PositionLists}

\* models whose fields may declare a relationship, with or without its target;
\* "" stands for a part that is not written
RelationNames == {"id", "has_one"}
RelationKinds == {"belongs_to", "has_one", "has_many", "references"}
RelationTargets == {"Order"}

RelationFields ==
    {<<n, "", "">> : n \in RelationNames}
        \cup {<<n, k, t>> : n \in RelationNames, k \in RelationKinds, t \in RelationTargets \cup {""}}

RelationLine(fd) ==
    <<fd[1], ":", " ", "Int">>
        \o (IF fd[2] = "" THEN <<>> ELSE <<" ", fd[2]>>)
        \o (IF fd[3] = "" THEN <<>> ELSE <<" ", fd[3]>>)
        \o <<"\n">>

RelationSrc(fs) ==
    <<"model", " ", "User", " ", "{", "\n">>
        \o Flatten([i \in 1..Len(fs) |-> RelationLine(fs[i])]) \o <<"}", "\n">>

RelationSources == {RelationSrc(fs) : fs \in SeqsUpTo(RelationFields, MaxFields)}

\* type definitions followed by why and validate clauses in any order, a
\* validate clause with or without its string, and then by a model or nothing
MaxClauses == 2

Clauses ==
    {<<"why", "w">>, <<"why", "note">>, <<"validate", "x">>, <<"validate", "y">>,
     <<"validate", "">>}

ClauseLists == SeqsUpTo(Clauses, MaxClauses)

ClauseFollowers == {<<>>, <<"model", " ", "M", " ", "{", "}", "\n">>}

ClauseText(cl) ==
    <<"\n", " ", " ", cl[1], ":">>
        \o (IF cl[2] = "" THEN <<>> ELSE <<" ", "\"", cl[2], "\"">>)

TypeDefSrc(cls, follower) ==
    <<"define", " ", "type", " ", "Email", " ", "as", " ", "String">>
        \o Flatten([i \in 1..Len(cls) |-> ClauseText(cls[i])]) \o <<"\n">> \o follower

TypeDefSources == {TypeDefSrc(cls, follower) : cls \in ClauseLists, follower \in ClauseFollowers}

Sources ==
    TypeDefSources \cup RelationSources \cup PositionSources \cup TruncatedSources \cup ReturnElseSources \cup ChainSources \cup FunctionsSources \cup MalformedRecordSources \cup CreateSources \cup DataSources \cup FunctionSources \cup ControlFlowSources \cup FileSources
        \cup AssignSources \cup AnnotatedSources \cup BodySources \cup ExprSources
        \cup IfSources

Filenames == {"", "user.cp"}

(***************************************************************************)
(* One call of ParseWithFilename(r, filename), a step at a time.           *)
(***************************************************************************)
Init ==
    /\ r \in Sources
    /\ filename \in Filenames
    /\ p = Nil
    /\ file = Nil
    /\ pc = "ParseWithFilename"
    /\ ret = Nil
    /\ watch = Nil

\* an abort that hands back the File built so far
abortPartial(f, err) == [file |-> f, err |-> err]

\* return nil, err
abort(f, err) == [file |-> Nil, err |-> err]

\* p := &parser{filename: filename}; p.scanner.Init(r); p.next()
ParseWithFilename ==
    /\ pc = "ParseWithFilename"
    /\ p' = next(newParser(r, filename))
    /\ pc' = "parseFile"
    /\ UNCHANGED <<r, filename, file, ret, watch>>

\* the parser, the File being built and the control state after a step of
\* parseFile that came back with res, when f was the File before it
parseFileStep(res, f) ==
    /\ p' = res.p
    /\ file' = IF res.err # Nil THEN f ELSE res.val
    /\ ret' = IF res.err # Nil THEN abort(f, res.err) ELSE ret
    /\ pc' = IF res.err # Nil THEN "done" ELSE "declarations"

\* parseFile up to the declaration loop
ParseFileModule ==
    /\ pc = "parseFile"
    /\ \E res \in {parseFileModule(p)} : parseFileStep(res, newFile(p))
    /\ UNCHANGED <<r, filename, watch>>

\* one turn of the declaration loop
ParseFileDeclaration ==
    /\ pc = "declarations"
    /\ p.tok # "EOF"
    /\ \E res \in {parseDeclaration(p, file)} : parseFileStep(res, file)
    /\ UNCHANGED <<r, filename, watch>>

\* a declaration loop that goes round again at the end of the input
ParseFileReturnLooping ==
    /\ pc = "declarations"
    /\ p.tok = "EOF"
    /\ UNCHANGED vars

\* return file, nil
ParseFileReturn ==
    /\ pc = "declarations"
    /\ p.tok = "EOF"
    /\ ret' = [file |-> file, err |-> Nil]
    /\ pc' = "done"
    /\ UNCHANGED <<r, filename, p, file, watch>>

\* strings.ToLower on the identifiers of the inputs
ToLower(s) ==
    CASE s = "User" -> "user"
      [] s = "Order" -> "order"
      [] s = "M" -> "m"
      [] s = "Int" -> "int"
      [] s = "String" -> "string"
      [] s = "Email" -> "email"
      [] OTHER -> s

DefaultAPIConfig ==
    [Title |-> "CloudPact API", Version |-> "1.0.0",
     Description |-> "Generated API from CloudPact models and services",
     ServerURL |-> "http://localhost:8080"]

\* the base type and format of a field type
mapSemanticType(cpType) ==
    CASE ToLower(cpType) \in {"int", "integer"} -> [type |-> "integer", format |-> "int32"]
      [] ToLower(cpType) \in {"text", "string"} -> [type |-> "string", format |-> ""]
      [] ToLower(cpType) = "email" -> [type |-> "string", format |-> "email"]
      [] OTHER -> [type |-> "string", format |-> ""]

generateFieldSchema(field) == mapSemanticType(field.Type.Name)

RECURSIVE modelProperties(_, _)
modelProperties(fields, props) ==
    IF fields = <<>> THEN props
    ELSE modelProperties(Tail(fields),
                         mapSet(props, Head(fields).Name, generateFieldSchema(Head(fields))))

generateModelSchema(model) ==
    [type |-> "object",
     properties |->
         modelProperties(model.Fields, {<<"id", [type |-> "string", format |-> "uuid"]>>}),
     required |-> <<"id">> \o [i \in 1..Len(model.Fields) |-> model.Fields[i].Name]]

\* the list path and the item path of a model, each with its operations
generateModelPaths(paths, model) ==
    mapSet(mapSet(paths, "/" \o ToLower(model.Name) \o "s", {"get", "post"}),
           "/" \o ToLower(model.Name) \o "s" \o "/{id}", {"parameters", "get", "put", "delete"})

\* the loop over file.Models; functions add nothing to the document
RECURSIVE generateModels(_, _)
generateModels(models, doc) ==
    IF models = <<>> THEN doc
    ELSE generateModels(Tail(models),
             [doc EXCEPT !.components.schemas =
                             mapSet(@, Head(models).Name, generateModelSchema(Head(models))),
                         !.paths = generateModelPaths(@, Head(models))])

GenerateWithConfig(f, config) ==
    IF f = Nil THEN [yaml |-> Nil, err |-> [node |-> "error", format |-> "nil file"]]
    ELSE [yaml |->
              generateModels(f.Models,
                  [openapi |-> "3.0.0",
                   info |-> [title |-> config.Title, version |-> config.Version,
                             description |-> config.Description],
                   servers |-> <<[url |-> config.ServerURL,
                                  description |-> "Development server"]>>,
                   components |-> [schemas |-> {}],
                   paths |-> {}]),
          err |-> Nil]

\* yaml, err := Generate(f) on the File a parse returned
Generate ==
    /\ pc = "done"
    /\ ret.err = Nil
    /\ ret' = GenerateWithConfig(ret.file, DefaultAPIConfig)
    /\ pc' = "generated"
    /\ UNCHANGED <<r, filename, p, file, watch>>

Next ==
    ParseWithFilename \/ ParseFileModule \/ ParseFileDeclaration \/ ParseFileReturn
        \/ Generate

Spec == Init /\ [][Next]_vars

(***************************************************************************)
(* Several calls of ParseWithFilename at once, their steps interleaved.    *)
(* Here r, filename, p, file, pc and ret hold one value for each call.     *)
(***************************************************************************)
Calls == {1, 2}

\* the name each call gives to its input
CallFilenames == <<"", "user.cp">>

ConcurrentKinds == {"record", "assign"}

ConcurrentSources == {FileSrc(ks) : ks \in SeqsUpTo(ConcurrentKinds, MaxDecls)}

\* a variable of one call is written: p is a variable of ParseWithFilename,
\* and file and the results are variables of parseFile
storeShared(v, i, x) == [j \in DOMAIN v |-> x]

store(v, i, x) == [v EXCEPT ![i] = x]

InitConcurrent ==
    /\ r \in [Calls -> ConcurrentSources]
    /\ filename = CallFilenames
    /\ p = [i \in Calls |-> Nil]
    /\ file = [i \in Calls |-> Nil]
    /\ pc = [i \in Calls |-> "ParseWithFilename"]
    /\ ret = [i \in Calls |-> Nil]
    /\ watch = Nil

CallParseWithFilename(i) ==
    /\ pc[i] = "ParseWithFilename"
    /\ p' = store(p, i, next(newParser(r[i], filename[i])))
    /\ pc' = store(pc, i, "parseFile")
    /\ UNCHANGED <<r, filename, file, ret, watch>>

callFileStep(i, res, f) ==
    /\ p' = store(p, i, res.p)
    /\ file' = store(file, i, IF res.err # Nil THEN f ELSE res.val)
    /\ ret' = store(ret, i, IF res.err # Nil THEN abort(f, res.err) ELSE ret[i])
    /\ pc' = store(pc, i, IF res.err # Nil THEN "done" ELSE "declarations")

CallParseFileModule(i) ==
    /\ pc[i] = "parseFile"
    /\ \E res \in {parseFileModule(p[i])} : callFileStep(i, res, newFile(p[i]))
    /\ UNCHANGED <<r, filename, watch>>

CallParseFileDeclaration(i) ==
    /\ pc[i] = "declarations"
    /\ p[i].tok # "EOF"
    /\ \E res \in {parseDeclaration(p[i], file[i])} : callFileStep(i, res, file[i])
    /\ UNCHANGED <<r, filename, watch>>

CallParseFileReturn(i) ==
    /\ pc[i] = "declarations"
    /\ p[i].tok = "EOF"
    /\ ret' = store(ret, i, [file |-> file[i], err |-> Nil])
    /\ pc' = store(pc, i, "done")
    /\ UNCHANGED <<r, filename, p, file, watch>>

NextConcurrent ==
    \E i \in Calls :
        \/ CallParseWithFilename(i)
        \/ CallParseFileModule(i)
        \/ CallParseFileDeclaration(i)
        \/ CallParseFileReturn(i)

SpecConcurrent == InitConcurrent /\ [][NextConcurrent]_vars

\* every input is text the scanner model classifies
\* Watch(ctx, build): the watcher on the models and services directories and
\* the loop that calls build for the .cp files written or created there
MaxEvents == 2

watchDirs == <<"models", "services">>

EventBases == {<<"a", ".", "cp">>, <<"a", ".", "cp", "~">>}
EventOps == {{"Create"}, {"Write"}, {"Chmod"}, {"Write", "Chmod"}}

RECURSIVE HasSuffix(_, _)
HasSuffix(s, suffix) ==
    IF suffix = <<>> THEN TRUE
    ELSE IF s = <<>> THEN FALSE
    ELSE s[Len(s)] = suffix[Len(suffix)]
             /\ HasSuffix(SubSeq(s, 1, Len(s) - 1), SubSeq(suffix, 1, Len(suffix) - 1))

\* a condition that lets only written files through
isBuildEventWriteOnly(event) ==
    HasSuffix(event.Name, <<".", "cp">>) /\ "Write" \in event.Op

\* strings.HasSuffix(event.Name, ".cp") && (Op&Write == Write || Op&Create == Create)
isBuildEvent(event) ==
    HasSuffix(event.Name, <<".", "cp">>) /\ ("Write" \in event.Op \/ "Create" \in event.Op)

InitWatch ==
    /\ r = <<>>
    /\ filename = ""
    /\ p = Nil
    /\ file = Nil
    /\ pc = "Watch"
    /\ ret = Nil
    /\ \E dirs \in SUBSET {"models", "services"} :
           watch = [pc |-> "NewWatcher", ret |-> Nil, dirs |-> dirs, i |-> 1, watched |-> {},
                    Events |-> <<>>, Errors |-> 0, done |-> FALSE, event |-> Nil,
                    emitted |-> 0, built |-> {}]

\* watcher, err := fsnotify.NewWatcher()
NewWatcher ==
    /\ watch # Nil /\ watch.pc = "NewWatcher"
    /\ \/ watch' = [watch EXCEPT !.pc = "Add"]
       \/ watch' = [watch EXCEPT !.pc = "returned",
                                 !.ret = [node |-> "error", format |-> "NewWatcher"]]
    /\ UNCHANGED <<r, filename, p, file, pc, ret>>

\* one turn of the loop over watchDirs
WatcherAdd ==
    /\ watch # Nil /\ watch.pc = "Add"
    /\ \/ /\ watchDirs[watch.i] \in watch.dirs
          /\ \/ watch' = [watch EXCEPT !.watched = @ \cup {watchDirs[watch.i]},
                                       !.i = @ + 1,
                                       !.pc = IF watch.i = Len(watchDirs) THEN "select" ELSE "Add"]
             \/ watch' = [watch EXCEPT !.pc = "returned",
                                       !.ret = [node |-> "error", format |-> "Add"]]
       \/ /\ watchDirs[watch.i] \notin watch.dirs
          /\ watch' = [watch EXCEPT !.i = @ + 1,
                                    !.pc = IF watch.i = Len(watchDirs) THEN "select" ELSE "Add"]
    /\ UNCHANGED <<r, filename, p, file, pc, ret>>

\* a change to a file of a watched directory while Watch is running
FileEvent ==
    /\ watch # Nil /\ watch.pc \in {"select", "build"}
    /\ watch.emitted < MaxEvents
    /\ \E dir \in watch.watched, base \in EventBases, op \in EventOps :
           watch' = [watch EXCEPT
                        !.emitted = @ + 1,
                        !.Events = Append(@, [id |-> watch.emitted + 1,
                                              Name |-> <<dir, "/">> \o base, Op |-> op])]
    /\ UNCHANGED <<r, filename, p, file, pc, ret>>

\* the watcher reports an error while Watch is running; it waits until the
\* loop receives it
WatcherError ==
    /\ watch # Nil /\ watch.pc \in {"select", "build"}
    /\ watch.Errors = 0
    /\ watch' = [watch EXCEPT !.Errors = 1]
    /\ UNCHANGED <<r, filename, p, file, pc, ret>>

\* the caller cancels the context
Cancel ==
    /\ watch # Nil /\ watch.pc # "returned" /\ ~watch.done
    /\ watch' = [watch EXCEPT !.done = TRUE]
    /\ UNCHANGED <<r, filename, p, file, pc, ret>>

\* case <-ctx.Done(): return nil
SelectDone ==
    /\ watch # Nil /\ watch.pc = "select" /\ watch.done
    /\ watch' = [watch EXCEPT !.pc = "returned", !.ret = Nil]
    /\ UNCHANGED <<r, filename, p, file, pc, ret>>

\* case event, ok := <-watcher.Events, up to the call of build
SelectEvent ==
    /\ watch # Nil /\ watch.pc = "select" /\ watch.Events # <<>>
    /\ watch' = IF isBuildEvent(Head(watch.Events))
                THEN [watch EXCEPT !.Events = Tail(@), !.event = Head(watch.Events),
                                   !.built = @ \cup {Head(watch.Events).id},
                                   !.pc = "build"]
                ELSE [watch EXCEPT !.Events = Tail(@)]
    /\ UNCHANGED <<r, filename, p, file, pc, ret>>

\* build() comes back, with an error or without
BuildReturns ==
    /\ watch # Nil /\ watch.pc = "build"
    /\ watch' = [watch EXCEPT !.pc = "select", !.event = Nil]
    /\ UNCHANGED <<r, filename, p, file, pc, ret>>

\* case err, ok := <-watcher.Errors
SelectError ==
    /\ watch # Nil /\ watch.pc = "select" /\ watch.Errors > 0
    /\ watch' = [watch EXCEPT !.Errors = 0]
    /\ UNCHANGED <<r, filename, p, file, pc, ret>>

NextWatch ==
    NewWatcher \/ WatcherAdd \/ FileEvent \/ WatcherError \/ Cancel \/ SelectDone
        \/ SelectEvent \/ BuildReturns \/ SelectError

\* a select with a ready case takes one of the ready cases at random, so a
\* pending event is received in the end; build is taken to return
SpecWatch ==
    InitWatch /\ [][NextWatch]_vars /\ WF_vars(SelectEvent) /\ WF_vars(BuildReturns)

\* parses of the texts that stop short; a parse runs on until it returns
InitTruncated ==
    /\ r \in TruncatedSources
    /\ filename \in Filenames
    /\ p = Nil
    /\ file = Nil
    /\ pc = "ParseWithFilename"
    /\ ret = Nil
    /\ watch = Nil

FairSpec == InitTruncated /\ [][Next]_vars /\ WF_vars(Next)

InputsAreChunks == \A i \in 1..Len(r) : r[i] \in Chunks

(***************************************************************************)
(* The properties.  A case names a source of one of the families together  *)
(* with what was written in it.                                            *)
(***************************************************************************)
\* the (field name, type name) pairs of a field list, in its order
FieldPairs(fields) == [i \in 1..Len(fields) |-> <<fields[i].Name, fields[i].Type.Name>>]

Declarations(f) ==
    Len(f.Records) + Len(f.Models) + Len(f.Functions) + Len(f.TypeDefs) + Len(f.Assignments)

RecordCases ==
    {[src |-> RecordSrc(N, fs), name |-> N, fields |-> fs] : N \in DeclNames, fs \in FieldLists}

ModelCases ==
    {[src |-> ModelSrc(N, fs), name |-> N, fields |-> fs] : N \in DeclNames, fs \in FieldLists}

\* no field name ends the record's field loop
NoTopLevelNames(fs) == \A i \in 1..Len(fs) : ~isTopLevelKeyword(fs[i][1])

\* no field name reads as the relationship of the field before it
NoRelationshipNames(fs) == \A i \in 2..Len(fs) : ~isRelationshipKeyword(fs[i][1])

\* C1: when ParseWithFilename returns, it returns either a File and no error,
\* having read the whole input, or no File and an error; the error is the one
\* the failing parse function reported, at the token where the parser stopped,
\* and the declarations parsed before it are not returned.
C1_FileXorError ==
    pc = "done" =>
        /\ ret = Returns(r, filename)
        /\ \/ ret.file # Nil /\ ret.err = Nil /\ ret.file = file /\ p.tok = "EOF"
           \/ /\ ret.file = Nil
              /\ ret.err # Nil
              /\ ret.err.at = position(p)
              /\ ret.err.hasText => ret.err.got = TokenText(p)

\* an error after a declaration had been parsed
C1_ErrorAfterDeclaration ==
    pc = "done" /\ ret.err # Nil /\ ret.file = Nil /\ Declarations(file) > 0

\* sources with a function declaration that lacks the why string or the do marker
MissingClauseSources ==
    {FunctionSrc(h, rt, b) : h \in HeaderKinds \ {"full"}, rt \in BOOLEAN,
                             b \in SeqsUpTo(StmtKinds, MaxStmts)}
        \cup {FileSrc(ks) : ks \in {k \in SeqsUpTo(DeclKinds, MaxDecls) :
                                        \E i \in 1..Len(k) : k[i] = "functionNoWhy"}}

\* C2: a source with a function declaration that has no why string, or no do
\* and colon after it, is answered with an error and no File.
C2_MissingWhyOrDoIsAnError ==
    (pc = "done" /\ r \in MissingClauseSources) => (ret.file = Nil /\ ret.err # Nil)

\* function bodies with an if whose condition is not followed by then
IfNoThenSources ==
    {FunctionSrc("full", rt, b) : rt \in BOOLEAN,
                                  b \in {k \in SeqsUpTo(StmtKinds, MaxStmts) :
                                             \E i \in 1..Len(k) : k[i] = "ifNoThen"}}

\* C3: a source with an if statement in a function body whose condition is
\* not followed by then is answered with an error and no File.
C3_IfWithoutThenIsAnError ==
    (pc = "done" /\ r \in IfNoThenSources) => (ret.file = Nil /\ ret.err # Nil)

\* C4: define record Name followed by n field: Type lines, none of whose
\* field names is a top-level keyword, parses to exactly one Record named
\* Name with exactly those n fields, in order, names and type names as written.
C4_RecordFieldsInOrder ==
    pc = "done" =>
        \A c \in RecordCases :
            (r = c.src /\ NoTopLevelNames(c.fields)) =>
                /\ ret.err = Nil
                /\ Len(ret.file.Records) = 1
                /\ ret.file.Records[1].Name = c.name
                /\ Len(ret.file.Records[1].Fields) = Len(c.fields)
                /\ FieldPairs(ret.file.Records[1].Fields) = c.fields

\* a record with more than one field, the fields different, has been parsed
C4_RecordWithFields ==
    /\ pc = "done"
    /\ ret.err = Nil
    /\ \E c \in RecordCases :
           /\ r = c.src
           /\ Len(c.fields) >= 2
           /\ c.fields[1] # c.fields[2]
           /\ Len(ret.file.Records) = 1

\* model Name { ... } has become exactly one Model with the fields written
isModelOf(result, c) ==
    /\ result.err = Nil
    /\ Len(result.file.Models) = 1
    /\ result.file.Models[1].Name = c.name
    /\ FieldPairs(result.file.Models[1].Fields) = c.fields
    /\ Declarations(result.file) = 1

\* C5, as the specification words it: for every identifier Name and every
\* list of field: Type entries, model Name { ... } parses to a File with
\* exactly one Model named Name with exactly those fields in order, and no
\* other declaration.
C5_EveryModelParses ==
    pc = "done" => \A c \in ModelCases : r = c.src => isModelOf(ret, c)

\* C5, amended: the same for every list of entries in which no field after
\* the first is named by a relationship keyword.
C5_ModelFieldsInOrder ==
    pc = "done" =>
        \A c \in ModelCases : (r = c.src /\ NoRelationshipNames(c.fields)) => isModelOf(ret, c)

\* a model with two different fields, the first named has_one, has been parsed
C5_ModelWithFields ==
    /\ pc = "done"
    /\ ret.err = Nil
    /\ \E c \in ModelCases :
           /\ r = c.src
           /\ Len(c.fields) >= 2
           /\ c.fields[1][1] = "has_one"
           /\ c.fields[1] # c.fields[2]
           /\ Len(ret.file.Models) = 1

\* the record form and the model form of the same declaration agree
converge(record, model, c) ==
    /\ record.err = Nil
    /\ model.err = Nil
    /\ Len(record.file.Records) = 1
    /\ Len(model.file.Models) = 1
    /\ record.file.Records[1].Name = c.name
    /\ model.file.Models[1].Name = c.name
    /\ FieldPairs(record.file.Records[1].Fields) = c.fields
    /\ FieldPairs(model.file.Models[1].Fields) = c.fields

\* C6, as the specification words it: for every name N and every list of
\* (field name, type name) identifier pairs, the model form and the record
\* form both parse, to the same name and the same ordered list of pairs.
C6_EveryFormConverges ==
    pc = "done" =>
        \A c \in RecordCases :
            r = c.src => converge(ret, Returns(ModelSrc(c.name, c.fields), filename), c)

\* C6, amended: the same for the lists in which no field name is a top-level
\* keyword and no field after the first is named by a relationship keyword.
C6_FormsConverge ==
    pc = "done" =>
        \A c \in RecordCases :
            (r = c.src /\ NoTopLevelNames(c.fields) /\ NoRelationshipNames(c.fields)) =>
                converge(ret, Returns(ModelSrc(c.name, c.fields), filename), c)

\* both forms of a declaration with two fields, a keyword among its names,
\* have been parsed
C6_BothFormsParsed ==
    /\ pc = "done"
    /\ \E c \in RecordCases :
           /\ r = c.src
           /\ Len(c.fields) = 2
           /\ c.name = "model"
           /\ c.fields[1][1] = "has_one"
           /\ ret.err = Nil
           /\ Returns(ModelSrc(c.name, c.fields), filename).err = Nil

ControlFlowCases ==
    {[src |-> ControlFlowSrc(A, K, V, E1, E2), A |-> A, K |-> K, V |-> V] :
         A \in CondNames, K \in CondLiterals, V \in VarNames,
         E1 \in ValueTexts, E2 \in ValueTexts}

\* the statement is if A > K with an assignment to V on either branch
isIfElse(stmt, c) ==
    /\ stmt.node = "If"
    /\ stmt.Condition.node = "Binary"
    /\ stmt.Condition.Left.node = "Identifier"
    /\ stmt.Condition.Left.Name = c.A
    /\ stmt.Condition.Operator = ">"
    /\ stmt.Condition.Right.node = "Literal"
    /\ stmt.Condition.Right.Value = c.K
    /\ stmt.ThenStmt.node = "Assign"
    /\ stmt.ThenStmt.Variable = c.V
    /\ stmt.ElseStmt.node = "Assign"
    /\ stmt.ElseStmt.Variable = c.V

\* C7: a function whose body is if A > K then set V = E1 else set V = E2
\* followed by return V parses to one Function whose body has exactly two
\* statements: the If, with condition Binary(Identifier A, ">", Literal K as
\* written) and an Assign on both branches, and then a Return; the branches
\* are not listed in the body.
C7_IfElseThenReturn ==
    pc = "done" =>
        \A c \in ControlFlowCases :
            r = c.src =>
                /\ ret.err = Nil
                /\ Len(ret.file.Functions) = 1
                /\ Len(ret.file.Functions[1].Body.Statements) = 2
                /\ isIfElse(ret.file.Functions[1].Body.Statements[1], c)
                /\ ret.file.Functions[1].Body.Statements[2].node = "Return"

\* such a function has been parsed, its names keywords elsewhere in the grammar
C7_ControlFlowParsed ==
    /\ pc = "done"
    /\ ret.err = Nil
    /\ \E c \in ControlFlowCases : r = c.src /\ c.A = "not" /\ c.V = "function"
    /\ Len(ret.file.Functions) = 1

statementKinds(body) == [j \in 1..Len(body.Statements) |-> body.Statements[j].node]

Outline(f) ==
    [Module |-> IF f.Module = Nil THEN <<>> ELSE <<f.Module.Name>>,
     Records |-> [i \in 1..Len(f.Records) |->
                      <<f.Records[i].Name, FieldPairs(f.Records[i].Fields)>>],
     Models |-> [i \in 1..Len(f.Models) |->
                     <<f.Models[i].Name, FieldPairs(f.Models[i].Fields)>>],
     TypeDefs |-> [i \in 1..Len(f.TypeDefs) |-> f.TypeDefs[i].Name],
     Functions |-> [i \in 1..Len(f.Functions) |->
                        <<f.Functions[i].Name, statementKinds(f.Functions[i].Body)>>]]

isCode(kind) == kind # "comment"

\* sources with comments between declarations or between statements, each
\* with the source that is left when the comments are taken out
CommentCases ==
    {[src |-> FileSrc(ks), base |-> FileSrc(SelectSeq(ks, isCode))] :
         ks \in {k \in SeqsUpTo(DeclKinds, MaxDecls) : \E i \in 1..Len(k) : k[i] = "comment"}}
        \cup {[src |-> FunctionSrc("full", rt, b),
               base |-> FunctionSrc("full", rt, SelectSeq(b, isCode))] :
                  rt \in BOOLEAN,
                  b \in {k \in SeqsUpTo(StmtKinds, MaxStmts) :
                             \E i \in 1..Len(k) : k[i] = "comment"}}

sameParse(result, base) ==
    base.err = Nil => (result.err = Nil /\ Outline(result.file) = Outline(base.file))

\* C9: when a source parses, the source with a comment put between two of
\* its tokens parses as well, to the same declarations and statements.
C9_CommentsAreInsignificant ==
    pc = "done" =>
        \A c \in CommentCases : r = c.src => sameParse(ret, Returns(c.base, filename))

FileCases == {[src |-> FileSrc(ks), kinds |-> ks] : ks \in SeqsUpTo(DeclKinds, MaxDecls)}

\* a module declaration that is not the first declaration of the source
moduleNotFirst(ks) ==
    \E i \in 2..Len(ks) : ks[i] = "module" /\ \E j \in 1..(i - 1) : isCode(ks[j])

\* C10: a returned File has a Module exactly when the source begins with
\* module and a name, and a source in which a module declaration comes a
\* second time or after another declaration is answered with an error.
C10_ModuleFirstAndOnce ==
    pc = "done" =>
        \A c \in FileCases :
            r = c.src =>
                /\ ret.file # Nil =>
                       (ret.file.Module # Nil <=> (c.kinds # <<>> /\ c.kinds[1] = "module"))
                /\ moduleNotFirst(c.kinds) => ret.err # Nil


\* the token begins a declaration of the loop of parseFile
beginsDeclaration(q) ==
    q.tok = "Ident" /\ TokenText(q) \in {"define", "function", "model", "assign-use"}

\* C11: at declaration level nothing is skipped: when the token at the start
\* of a declaration is neither the end of the input nor a keyword that begins
\* a declaration, the parse ends there with an error that reports the text
\* and the position of that token.
C11_UnexpectedTokenIsReported ==
    [][(pc = "declarations" /\ p.tok # "EOF" /\ ~beginsDeclaration(p)) =>
           /\ pc' = "done"
           /\ p' = p
           /\ ret'.file = Nil
           /\ ret'.err = Errorf("unexpected token %q at %s", p)
           /\ ret'.err.got = TokenText(p)
           /\ ret'.err.at = position(p)]_vars

\* a token that begins no declaration has been refused after a declaration
C11_TokenRefusedAfterDeclaration ==
    /\ pc = "done"
    /\ ret.err # Nil
    /\ ret.err.format = "unexpected token %q at %s"
    /\ ret.err.got = TokenText(p)
    /\ Declarations(file) > 0

\* the declarations that are well-formed on their own
WellFormedKinds == {"record", "recordOrder", "model", "typedef", "function", "functionReturn"}

\* the list of the File a declaration of the kind belongs to
DeclList(kind) ==
    CASE kind \in {"record", "recordOrder"} -> "Records"
      [] kind = "model" -> "Models"
      [] kind = "typedef" -> "TypeDefs"
      [] kind \in {"function", "functionReturn"} -> "Functions"

\* the name the declaration of the kind declares
DeclName(kind) ==
    CASE kind \in {"record", "model"} -> "User"
      [] kind = "recordOrder" -> "Order"
      [] kind = "typedef" -> "Email"
      [] kind \in {"function", "functionReturn"} -> "f"

Names(list) == [i \in 1..Len(list) |-> list[i].Name]

\* the names a list of the File is to hold for the declarations written
Declared(ks, list) ==
    [i \in 1..Len(SelectSeq(ks, LAMBDA k : DeclList(k) = list)) |->
         DeclName(SelectSeq(ks, LAMBDA k : DeclList(k) = list)[i])]

MixedCases ==
    {[src |-> FileSrc(ks), kinds |-> ks] : ks \in SeqsUpTo(WellFormedKinds, MaxDecls)}

\* C12: a source made of well-formed declarations of mixed kinds parses, each
\* declaration lands in the list of its kind, each list is in source order,
\* and the lists together hold as many entries as there are declarations.
C12_DeclarationsLandInTheirLists ==
    pc = "done" =>
        \A c \in MixedCases :
            r = c.src =>
                /\ ret.err = Nil
                /\ Names(ret.file.Records) = Declared(c.kinds, "Records")
                /\ Names(ret.file.Models) = Declared(c.kinds, "Models")
                /\ Names(ret.file.TypeDefs) = Declared(c.kinds, "TypeDefs")
                /\ Names(ret.file.Functions) = Declared(c.kinds, "Functions")
                /\ Declarations(ret.file) = Len(c.kinds)

AnnotatedCases ==
    {[src |-> AnnotatedSrc(rt, anns), annotations |-> anns] :
         rt \in BOOLEAN, anns \in SeqsUpTo(AnnotationKinds, MaxAnnotations)}

\* the (kind, content) pairs of an annotation list, in its order
AnnotationPairs(annotations) ==
    [i \in 1..Len(annotations) |-> <<annotations[i].Type, annotations[i].Content>>]

\* C13: a function declaration with AI annotation clauses between its returns
\* clause and its why clause parses, and the Function lists one annotation
\* per clause, in source order, with the kind without ai- and the content;
\* the same kind may come twice.
C13_AnnotationsInOrder ==
    pc = "done" =>
        \A c \in AnnotatedCases :
            r = c.src =>
                /\ ret.err = Nil
                /\ Len(ret.file.Functions) = 1
                /\ AnnotationPairs(ret.file.Functions[1].AIAnnotations)
                       = [i \in 1..Len(c.annotations) |-> <<c.annotations[i], "x">>]

BodyCases == {[src |-> BodySrc(ks), kinds |-> ks] : ks \in SeqsUpTo(BodyKinds, MaxStmts)}

isNative(kind) == kind \in {"goNative", "tsNative"}

isStatement(kind) == kind \in {"set", "returnValue"}

\* the (language, code) pairs of a list of native blocks, in its order
NativePairs(blocks) == [i \in 1..Len(blocks) |-> <<blocks[i].Language, blocks[i].Code>>]

NativePair(kind) == IF kind = "goNative" THEN <<"go", "x">> ELSE <<"ts", "y">>

StatementNode(kind) == IF kind = "set" THEN "Assign" ELSE "Return"

\* C14: each native block of a function body is in NativeBlocks, with its
\* language and code, in source order, and not in Statements; the statements
\* around it are in Statements in their order.
C14_NativeBlocksApart ==
    pc = "done" =>
        \A c \in BodyCases :
            r = c.src =>
                /\ ret.err = Nil
                /\ Len(ret.file.Functions) = 1
                /\ NativePairs(ret.file.Functions[1].Body.NativeBlocks)
                       = [i \in 1..Len(SelectSeq(c.kinds, isNative)) |->
                              NativePair(SelectSeq(c.kinds, isNative)[i])]
                /\ statementKinds(ret.file.Functions[1].Body)
                       = [i \in 1..Len(SelectSeq(c.kinds, isStatement)) |->
                              StatementNode(SelectSeq(c.kinds, isStatement)[i])]

\* the token begins no statement, no native block and no declaration
strayToken(q) ==
    /\ q.tok # "EOF"
    /\ ~(/\ q.tok = "Ident"
         /\ \/ TokenText(q) \in {"if", "return", "set", "create", "fail", "use"}
            \/ TokenText(q) \in {"go-native", "ts-native"}
            \/ isTopLevelKeyword(TokenText(q)))

\* a function body as it is before its first statement
noStatements(q) ==
    [node |-> "FunctionBody", Position |-> position(q), Statements |-> <<>>,
     NativeBlocks |-> <<>>]

\* at statement position the token is passed over: no error, no statement,
\* and the body goes on as from the token after it
passedOver(q, body) ==
    /\ parseStatement(q) = Ok(next(q), Nil)
    /\ parseBodyStatements(q, body) = parseBodyStatements(next(q), body)

ComparisonOperators == {"<", ">", "=", "contains", "not contains", "not"}

ArithmeticSymbols == {"+", "-", "*", "/"}

\* the operators of the BinaryExpressions of an expression
RECURSIVE ExprOperators(_)
ExprOperators(e) ==
    IF e.node = "Binary"
    THEN {e.Operator} \cup ExprOperators(e.Left) \cup ExprOperators(e.Right)
    ELSE IF e.node = "Call"
    THEN UNION {ExprOperators(e.Arguments[i]) : i \in 1..Len(e.Arguments)}
    ELSE {}

\* the operators of the BinaryExpressions of a statement
RECURSIVE StmtOperators(_)
StmtOperators(stmt) ==
    IF stmt.node = "If"
    THEN ExprOperators(stmt.Condition) \cup StmtOperators(stmt.ThenStmt)
             \cup StmtOperators(stmt.ElseStmt)
    ELSE IF stmt.node \in {"Return", "Assign"} THEN ExprOperators(stmt.Value)
    ELSE IF stmt.node = "Create"
    THEN UNION {ExprOperators(stmt.Assignments[i].Value) : i \in 1..Len(stmt.Assignments)}
    ELSE {}

BodyOperators(body) == UNION {StmtOperators(body.Statements[j]) : j \in 1..Len(body.Statements)}

FileOperators(f) == UNION {BodyOperators(f.Functions[i].Body) : i \in 1..Len(f.Functions)}

\* the operators of a chain of comparisons, the innermost (leftmost) first
RECURSIVE Spine(_)
Spine(e) == IF e.node = "Binary" THEN Append(Spine(e.Left), e.Operator) ELSE <<>>

\* the operators written before the first arithmetic symbol
RECURSIVE Compared(_)
Compared(ops) ==
    IF ops = <<>> \/ Concat(Head(ops)) \in ArithmeticSymbols THEN <<>>
    ELSE <<Concat(Head(ops))>> \o Compared(Tail(ops))

\* an expression already parsed when the comparison loop begins
leftOperand(q) == [node |-> "Identifier", Name |-> "x", Position |-> position(q)]

ExprCases == {[src |-> ExprSrc(ops), ops |-> ops] : ops \in SeqsUpTo(OperatorTexts, MaxOps)}

\* C16: every BinaryExpression of a File has one of the operators <, >, =,
\* contains, not contains, not; an arithmetic symbol is never an operator,
\* and an expression ends before one: the comparison loop leaves the symbol
\* unread, and set y = x op 1 op y ... parses to the comparisons written
\* before the first arithmetic symbol.
C16_OnlyComparisonOperators ==
    /\ file # Nil => FileOperators(file) \subseteq ComparisonOperators
    /\ pc = "parseFile" =>
           \A i \in 1..Len(p.tokens) :
               tokenAt(p, i).tok \in ArithmeticSymbols =>
                   parseComparisonRest(tokenAt(p, i), leftOperand(p))
                       = Ok(tokenAt(p, i), leftOperand(p))
    /\ pc = "done" =>
           \A c \in ExprCases :
               r = c.src =>
                   /\ ret.err = Nil
                   /\ Len(ret.file.Functions[1].Body.Statements) = 1
                   /\ Spine(ret.file.Functions[1].Body.Statements[1].Value) = Compared(c.ops)

\* a comparison followed by an arithmetic symbol has been parsed
C16_ComparisonThenArithmetic ==
    /\ pc = "done"
    /\ ret.err = Nil
    /\ \E c \in ExprCases : r = c.src /\ c.ops = << <<">">>, <<"+">> >>
    /\ FileOperators(ret.file) = {">"}

\* the messages that name what was expected, with the token and the position
ExpectedFormats ==
    {"expected " \o e \o ", got %q at %s" : e \in {"'('", "')'", "':'", "'='", "'{'", "'}'"}}
        \cup {"expected '" \o k \o "', got %q at %s" :
                  k \in {"as", "assign-use", "create", "define", "do", "fail", "function",
                         "if", "model", "module", "record", "return", "set", "then",
                         "type", "use", "why", "with"}}
        \cup {"expected 'record' or 'type' after 'define', got %q at %s",
              "expected AI annotation, got %q at %s",
              "expected error message string after 'fail', got %q at %s",
              "expected field name, got %q at %s",
              "expected function name, got %q at %s",
              "expected model name, got %q at %s",
              "expected module name, got %q at %s",
              "expected parameter name, got %q at %s",
              "expected property name after '.', got %q at %s",
              "expected record name, got %q at %s",
              "expected string after 'why:', got %q at %s",
              "expected string after AI annotation, got %q at %s",
              "expected target model name, got %q at %s",
              "expected type name after 'create', got %q at %s",
              "expected type name, got %q at %s",
              "expected variable name after 'set', got %q at %s"}

\* the messages that name the token and the position only
UnexpectedFormats == {"unexpected token %q at %s", "unexpected token in expression: %q at %s"}

\* the error carries the text and the Position of the token the parser stands
\* on, with the file name given to ParseWithFilename
carriesToken(err) ==
    /\ err.hasText
    /\ err.got = TokenText(p)
    /\ err.at = position(p)
    /\ err.at.File = filename
    /\ err.at.Line >= 1
    /\ err.at.Column >= 1

\* C17, as the specification words it: every error carries the construct
\* that was expected, the text of the token met, and the Position of that
\* token, with the file name when one was given.
C17_EveryErrorNamesExpected ==
    (pc = "done" /\ ret.err # Nil) =>
        (ret.err.format \in ExpectedFormats /\ carriesToken(ret.err))

\* C17, amended: every error carries the text of the token met and its
\* Position, with the file name when one was given; it names the construct
\* that was expected unless it is one of the two unexpected-token errors.
C17_EveryErrorCarriesToken ==
    (pc = "done" /\ ret.err # Nil) =>
        /\ carriesToken(ret.err)
        /\ ret.err.format \in ExpectedFormats \cup UnexpectedFormats

\* an error that names what was expected, past the first line of a named file
C17_ExpectedErrorInNamedFile ==
    /\ pc = "done"
    /\ ret.err # Nil
    /\ ret.err.format \in ExpectedFormats
    /\ ret.err.got # ""
    /\ ret.err.at.File = "user.cp"
    /\ ret.err.at.Line > 1

\* C18: parses are independent: when several parses run at once, their
\* steps interleaved in any order, each returns the File or the error it
\* returns when run alone.
C18_ConcurrentParsesAreIndependent ==
    \A i \in Calls : pc[i] = "done" => ret[i] = Returns(r[i], filename[i])

\* one call has ended with an error while the other, of a different input,
\* is in its declaration loop with a declaration parsed
C18_OneDoneOneParsing ==
    /\ pc[1] = "done"
    /\ ret[1].err # Nil
    /\ pc[2] = "declarations"
    /\ Declarations(file[2]) > 0
    /\ r[1] # r[2]

IfCases ==
    {[src |-> IfSrc(t, e), then |-> t, else |-> e] :
         t \in BranchKinds, e \in BranchKinds \cup {"none"}}

StatementNodes == {"If", "Return", "Assign", "Create", "Fail"}

\* every If of the statement, nested ones too, has a statement for its
\* then-branch and, if it has an else-branch, a statement for it
RECURSIVE branchesPresent(_)
branchesPresent(stmt) ==
    stmt.node = "If" =>
        /\ stmt.ThenStmt.node \in StatementNodes
        /\ branchesPresent(stmt.ThenStmt)
        /\ stmt.ElseStmt # Nil =>
               (stmt.ElseStmt.node \in StatementNodes /\ branchesPresent(stmt.ElseStmt))

\* C19: in every returned File each If has a then-branch that is one
\* statement and, when else was read for it, an else-branch that is one
\* statement; a branch is never absent.
C19_BranchesAreStatements ==
    (pc = "done" /\ ret.err = Nil) =>
        /\ \A i \in 1..Len(ret.file.Functions) :
               \A j \in 1..Len(ret.file.Functions[i].Body.Statements) :
                   branchesPresent(ret.file.Functions[i].Body.Statements[j])
        /\ \A c \in IfCases :
               (r = c.src /\ c.else # "none") =>
                   ret.file.Functions[1].Body.Statements[1].ElseStmt # Nil

CreateCases ==
    {[src |-> CreateSrc(form, as, follower), form |-> form, fields |-> as,
      follower |-> follower] :
         form \in CreateForms, as \in CreateAssignments, follower \in CreateFollowers}

valueText(expr) == IF expr.node = "Literal" THEN expr.Value ELSE expr.Name

assignmentPairs(create) ==
    [i \in 1..Len(create.Assignments) |->
        <<create.Assignments[i].Field, valueText(create.Assignments[i].Value)>>]

\* the Create statement with type name T and the given (field, value) pairs
isCreateOf(stmt, T, pairs) ==
    stmt.node = "Create" /\ stmt.TypeName = T /\ assignmentPairs(stmt) = pairs

\* what follows the create statement was parsed as it is parsed anywhere
followerParsed(f, follower) ==
    CASE follower = "none" ->
             Len(f.Functions) = 1 /\ Len(f.Functions[1].Body.Statements) = 1
                 /\ Declarations(f) = 1
      [] follower = "return" ->
             /\ Len(f.Functions[1].Body.Statements) = 2
             /\ f.Functions[1].Body.Statements[2].node = "Return"
             /\ f.Functions[1].Body.Statements[2].Value.node = "Identifier"
             /\ f.Functions[1].Body.Statements[2].Value.Name = "result"
      [] follower = "set" ->
             /\ Len(f.Functions[1].Body.Statements) = 2
             /\ f.Functions[1].Body.Statements[2].node = "Assign"
             /\ f.Functions[1].Body.Statements[2].Variable = "y"
      [] follower = "create" ->
             /\ Len(f.Functions[1].Body.Statements) = 2
             /\ isCreateOf(f.Functions[1].Body.Statements[2], "Order", << <<"id", "1">> >>)
      [] follower = "record" ->
             /\ Len(f.Functions[1].Body.Statements) = 1
             /\ Len(f.Records) = 1 /\ f.Records[1].Name = "User"
             /\ FieldPairs(f.Records[1].Fields) = << <<"id", "Int">> >>
      [] follower = "function" ->
             /\ Len(f.Functions[1].Body.Statements) = 1
             /\ Len(f.Functions) = 2 /\ f.Functions[2].Name = "f"
             /\ statementKinds(f.Functions[2].Body) = <<"Return">>
      [] follower = "model" ->
             /\ Len(f.Functions[1].Body.Statements) = 1
             /\ Len(f.Models) = 1 /\ f.Models[1].Name = "User"

\* C20: create T with: f1 = e1 ... fn = en parses to a Create statement with
\* type name T and exactly the n assignments (fi, ei) in source order; without
\* "with", or without ":" after it, the parse is an error; the assignments end,
\* unconsumed, at the first statement keyword or top-level keyword, and the
\* statement or declaration that begins there is parsed normally.
C20_CreateAssignmentsInOrder ==
    \A c \in CreateCases :
        (r = c.src /\ pc = "done") =>
            CASE c.form = "full" ->
                     /\ ret.err = Nil
                     /\ isCreateOf(ret.file.Functions[1].Body.Statements[1], "User", c.fields)
                     /\ followerParsed(ret.file, c.follower)
              [] c.form = "noWith" ->
                     /\ ret.file = Nil /\ ret.err # Nil
                     /\ ret.err.format = "expected 'with', got %q at %s"
              [] c.form = "noColon" ->
                     /\ ret.file = Nil /\ ret.err # Nil
                     /\ ret.err.format = "expected ':', got %q at %s"

C20_CreateThenDeclaration ==
    /\ pc = "done" /\ ret.err = Nil
    /\ \E c \in CreateCases :
           /\ r = c.src /\ c.form = "full" /\ Len(c.fields) = MaxFields
           /\ c.follower = "record"
    /\ Len(ret.file.Functions[1].Body.Statements[1].Assignments) = MaxFields
    /\ Len(ret.file.Records) = 1

MalformedRecordCases ==
    {[src |-> MalformedRecordSrc(first, name, form, after), first |-> first,
      name |-> name, form |-> form, after |-> after] :
         first \in BOOLEAN, name \in FieldNames, form \in MalformedForms,
         after \in MalformedAfter}

\* C21: a record field whose name is not followed by ":" and a type
\* identifier makes the parse return an error and no File.
C21_MalformedFieldIsAnError ==
    \A c \in MalformedRecordCases :
        (r = c.src /\ pc = "done") => (ret.file = Nil /\ ret.err # Nil)

C21_FieldWithoutColonRefused ==
    /\ pc = "done" /\ ret.file = Nil /\ ret.err # Nil
    /\ r = MalformedRecordSrc(TRUE, "id", "noColon", "none")
    /\ ret.err.format = "expected ':', got %q at %s"
    /\ ret.err.got = "Int"

\* the keys of the document's paths
pathEntries(doc) == {kv[1] : kv \in doc.paths}

\* C22: the OpenAPI document generated from a returned File has, for each
\* Function F of the File, a path entry /F.Name.
C22_EveryFunctionHasAPath ==
    pc = "generated" =>
        \A i \in 1..Len(file.Functions) :
            ("/" \o file.Functions[i].Name) \in pathEntries(ret.yaml)

\* the event with this number waits in the watcher and is a write or a
\* create of a .cp file
pendingBuildEvent(id) ==
    \E k \in 1..Len(watch.Events) :
        /\ watch.Events[k].id = id
        /\ watch.Events[k].Name[Len(watch.Events[k].Name)] = "cp"
        /\ watch.Events[k].Name[Len(watch.Events[k].Name) - 1] = "."
        /\ watch.Events[k].Op \cap {"Write", "Create"} # {}

\* C23: while Watch runs on an existing models or services directory, every
\* write or create event on a .cp file of that directory leads to a call of
\* build, unless the context is cancelled before the event is handled.
C23_CpEventLeadsToBuild ==
    \A id \in 1..MaxEvents :
        pendingBuildEvent(id) ~> (id \in watch.built \/ watch.done)

C23_CreatedFileBuilt ==
    /\ watch.pc = "build" /\ ~watch.done
    /\ watch.event.Op = {"Create"}
    /\ watch.event.id = MaxEvents
    /\ watch.event.id \in watch.built

FunctionsCases ==
    {[src |-> FunctionsSrc(kinds), kinds |-> kinds] : kinds \in SeqsUpTo(EndKinds, MaxDecls)}

\* C24: a function body consumes no top-level keyword: it ends at the first
\* one, which begins the next declaration, so a source of k well-formed
\* functions, whatever statement each ends with, gives a File with exactly
\* those k Functions.
C24_BodyStopsAtTopLevelKeyword ==
    \A c \in FunctionsCases :
        (r = c.src /\ pc = "done") =>
            /\ ret.err = Nil
            /\ Names(ret.file.Functions) = SubSeq(FunctionNameList, 1, Len(c.kinds))

ChainCases ==
    {[src |-> ChainSrc(abc, op1, op2), abc |-> abc, op1 |-> Concat(op1), op2 |-> Concat(op2)] :
         abc \in OperandTriples, op1 \in ComparisonTexts, op2 \in ComparisonTexts}

PrimaryNodes == {"Identifier", "Member", "Call", "Literal"}

\* an expression without its positions
RECURSIVE shape(_)
shape(e) ==
    CASE e.node = "Binary" -> <<"Binary", shape(e.Left), e.Operator, shape(e.Right)>>
      [] e.node = "Identifier" -> <<"Identifier", e.Name>>
      [] e.node = "Member" -> <<"Member", shape(e.Object), e.Property>>
      [] e.node = "Call" ->
             <<"Call", e.Function, [i \in 1..Len(e.Arguments) |-> shape(e.Arguments[i])]>>
      [] e.node = "Literal" -> <<"Literal", e.Value>>

\* the primary written by PrimaryText, without its positions
primaryShape(kind) ==
    CASE kind = "identifier" -> <<"Identifier", "x">>
      [] kind = "member" -> <<"Member", <<"Identifier", "x">>, "name">>
      [] kind = "call" -> <<"Call", "f", << <<"Identifier", "y">> >> >>
      [] kind = "int" -> <<"Literal", "1">>
      [] kind = "string" -> <<"Literal", "w">>

\* the kinds of node that are right operands in an expression
RECURSIVE ExprRights(_)
ExprRights(e) ==
    IF e.node = "Binary"
    THEN {e.Right.node} \cup ExprRights(e.Left) \cup ExprRights(e.Right)
    ELSE IF e.node = "Call"
    THEN UNION {ExprRights(e.Arguments[i]) : i \in 1..Len(e.Arguments)}
    ELSE {}

RECURSIVE StmtRights(_)
StmtRights(stmt) ==
    IF stmt.node = "If"
    THEN ExprRights(stmt.Condition) \cup StmtRights(stmt.ThenStmt) \cup StmtRights(stmt.ElseStmt)
    ELSE IF stmt.node \in {"Return", "Assign"} THEN ExprRights(stmt.Value)
    ELSE IF stmt.node = "Create"
    THEN UNION {ExprRights(stmt.Assignments[i].Value) : i \in 1..Len(stmt.Assignments)}
    ELSE {}

FileRights(f) ==
    UNION {UNION {StmtRights(f.Functions[i].Body.Statements[j]) :
                      j \in 1..Len(f.Functions[i].Body.Statements)} :
               i \in 1..Len(f.Functions)}

\* C25: comparisons associate to the left on a single level: a op1 b op2 c
\* parses to Binary(Binary(a, op1, b), op2, c), and every right operand of a
\* Binary is a primary expression.
C25_ComparisonsAssociateLeft ==
    pc = "done" =>
        /\ ret.err = Nil => FileRights(ret.file) \subseteq PrimaryNodes
        /\ \A c \in ChainCases :
               r = c.src =>
                   /\ ret.err = Nil
                   /\ shape(ret.file.Functions[1].Body.Statements[1].Value)
                          = <<"Binary",
                              <<"Binary", primaryShape(c.abc[1]), c.op1, primaryShape(c.abc[2])>>,
                              c.op2, primaryShape(c.abc[3])>>

C25_ChainOfThreeParsed ==
    /\ pc = "done" /\ ret.err = Nil
    /\ \E c \in ChainCases :
           r = c.src /\ c.op1 = "not contains" /\ c.op2 = "<" /\ c.abc[3] = "call"
    /\ ret.file.Functions[1].Body.Statements[1].Value.Left.node = "Binary"
    /\ ret.file.Functions[1].Body.Statements[1].Value.Right.node = "Call"

ReturnElseCases ==
    {[src |-> ReturnElseSrc(cond, else), else |-> else] :
         cond \in Conditions, else \in ElseKinds}

\* the node that a branch of the given kind parses to
branchNode(kind) ==
    CASE kind = "set" -> "Assign"
      [] kind = "return" -> "Return"
      [] kind = "fail" -> "Fail"
      [] kind = "create" -> "Create"

\* C26: the value of a return is optional and an else belongs to the if:
\* if C then return else S parses to an If whose then-branch is a Return
\* without a value and whose else-branch is S.
C26_ElseBelongsToTheIf ==
    \A c \in ReturnElseCases :
        (r = c.src /\ pc = "done") =>
            /\ ret.err = Nil
            /\ Len(ret.file.Functions[1].Body.Statements) = 1
            /\ ret.file.Functions[1].Body.Statements[1].node = "If"
            /\ ret.file.Functions[1].Body.Statements[1].ThenStmt.node = "Return"
            /\ ret.file.Functions[1].Body.Statements[1].ThenStmt.Value = Nil
            /\ ret.file.Functions[1].Body.Statements[1].ElseStmt.node = branchNode(c.else)

\* the tokens between the parser before a loop and the parser after it
consumed(q, res) == res.p.at - q.at

\* a loop that began at q never moved back, and read at least one token for
\* each item it produced
advanced(q, res, items) ==
    /\ consumed(q, res) >= 0
    /\ res.err = Nil => consumed(q, res) >= items

emptyRecord(q) == [node |-> "Record", Name |-> "x", Position |-> position(q), Fields |-> <<>>]

emptyModel(q) == [node |-> "Model", Name |-> "x", Position |-> position(q), Fields |-> <<>>]

emptyTypeDef(q) ==
    [node |-> "TypeDef", Name |-> "x", BaseType |-> Nil, Position |-> position(q), Why |-> "",
     Validation |-> {}]

\* each loop of the parser, begun at q
loopsAdvance(q) ==
    /\ \A res \in {parseDeclarations(q, newFile(q))} :
           advanced(q, res, IF res.err = Nil THEN Declarations(res.val) ELSE 0)
    /\ \A res \in {parseRecordFields(q, emptyRecord(q))} :
           advanced(q, res, IF res.err = Nil THEN Len(res.val.Fields) ELSE 0)
    /\ \A res \in {parseModelFields(q, emptyModel(q))} :
           advanced(q, res, IF res.err = Nil THEN Len(res.val.Fields) ELSE 0)
    /\ \A res \in {parseTypeDefClauses(q, emptyTypeDef(q))} :
           advanced(q, res, IF res.err = Nil THEN Cardinality(res.val.Validation) ELSE 0)
    /\ \A res \in {parseFunctionBody(q)} :
           advanced(q, res, IF res.err = Nil THEN Len(res.val.Statements) ELSE 0)
    /\ \A res \in {parseCreateAssignments(q, <<>>)} :
           advanced(q, res, IF res.err = Nil THEN Len(res.val) ELSE 0)
    /\ \A res \in {parseUseParts(q, <<>>)} :
           advanced(q, res, IF res.err = Nil THEN Len(res.val) ELSE 0)
    /\ \A res \in {parseComparisonRest(q, leftOperand(q))} :
           advanced(q, res, IF res.err = Nil THEN Len(Spine(res.val)) ELSE 0)
    /\ \A res \in {parseArguments(q, <<>>)} :
           advanced(q, res, IF res.err = Nil THEN Len(res.val) ELSE 0)
    /\ \A res \in {parseParameters(q, <<>>)} :
           advanced(q, res, IF res.err = Nil THEN Len(res.val) ELSE 0)

\* C27: parsing terminates on every input: a parse reaches a File or an
\* error; every turn of the declaration loop reads at least one token or
\* returns; and each loop, begun at any token of a text that stops short
\* anywhere, the end of input included, comes to an end having read at least
\* one token for each item it produced.
C27_ParsingTerminates ==
    /\ <>(pc = "done")
    /\ [][(pc = "declarations" /\ pc' = "declarations") => p'.at > p.at]_vars
    /\ [](pc = "parseFile" => \A i \in 1..Len(p.tokens) : loopsAdvance(tokenAt(p, i)))

C27_StoppedInsideArguments ==
    /\ pc = "done" /\ ret.err # Nil
    /\ r \in Prefixes(FunctionProgram)
    /\ Len(r) > 0 /\ r[Len(r)] = ","
    /\ p.tok = "EOF"
    /\ \E i \in 1..Len(r) : r[i] = "if"

PositionCases ==
    {[src |-> PositionSrc(indent, kinds), indent |-> indent, kinds |-> kinds] :
         indent \in Indents, kinds \in PositionLists}

\* the number of characters of the chunks from the i-th to the j-th
RECURSIVE SumLen(_, _, _)
SumLen(src, i, j) == IF i > j THEN 0 ELSE Len(src[i]) + SumLen(src, i + 1, j)

\* the last line break before the k-th chunk, or 0
RECURSIVE lastBreak(_, _)
lastBreak(src, k) ==
    IF k <= 1 THEN 0 ELSE IF src[k - 1] = "\n" THEN k - 1 ELSE lastBreak(src, k - 1)

\* where the k-th chunk of the source stands
chunkPosition(src, k, fname) ==
    [Line |-> 1 + Cardinality({i \in 1..(k - 1) : src[i] = "\n"}),
     Column |-> 1 + SumLen(src, lastBreak(src, k) + 1, k - 1),
     Offset |-> SumLen(src, 1, k - 1),
     File |-> fname]

\* the nodes of a statement of the given kind, each with the place of its
\* first token, counted in chunks from the start of the statement
nodeOffsets(kind) ==
    CASE kind = "set" ->
             {<<"Assign", 0>>, <<"Binary", 6>>, <<"Member", 6>>, <<"Identifier", 6>>,
              <<"Call", 12>>, <<"Identifier", 14>>}
      [] kind = "if" ->
             {<<"If", 0>>, <<"Binary", 2>>, <<"Identifier", 2>>, <<"Literal", 6>>,
              <<"Return", 10>>, <<"Literal", 12>>, <<"Fail", 18>>}
      [] kind = "create" -> {<<"Create", 0>>, <<"Literal", 11>>}
      [] kind = "use" -> {<<"Assign", 0>>, <<"Literal", 2>>}

\* the chunk at which the j-th statement of the case begins
statementStart(c, j) ==
    Len(PositionSrc(c.indent, SubSeq(c.kinds, 1, j - 1))) + Len(c.indent) + 1

\* the nodes written in the case, each with the position of its first token
writtenNodes(c, fname) ==
    UNION {{<<n[1], chunkPosition(c.src, statementStart(c, j) + n[2], fname)>> :
                n \in nodeOffsets(c.kinds[j])} : j \in 1..Len(c.kinds)}

\* the expression nodes of an expression, each with its Position
RECURSIVE ExprNodes(_)
ExprNodes(e) ==
    CASE e.node = "Binary" -> {<<"Binary", e.Position>>} \cup ExprNodes(e.Left) \cup ExprNodes(e.Right)
      [] e.node = "Member" -> {<<"Member", e.Position>>} \cup ExprNodes(e.Object)
      [] e.node = "Call" ->
             {<<"Call", e.Position>>}
                 \cup UNION {ExprNodes(e.Arguments[i]) : i \in 1..Len(e.Arguments)}
      [] e.node \in {"Identifier", "Literal"} -> {<<e.node, e.Position>>}
      [] OTHER -> {}

\* the statement and expression nodes of a statement, each with its Position
RECURSIVE StmtNodes(_)
StmtNodes(stmt) ==
    CASE stmt.node = "If" ->
             {<<"If", stmt.Position>>} \cup ExprNodes(stmt.Condition)
                 \cup StmtNodes(stmt.ThenStmt) \cup StmtNodes(stmt.ElseStmt)
      [] stmt.node \in {"Return", "Assign"} ->
             {<<stmt.node, stmt.Position>>} \cup ExprNodes(stmt.Value)
      [] stmt.node = "Create" ->
             {<<"Create", stmt.Position>>}
                 \cup UNION {ExprNodes(stmt.Assignments[i].Value) : i \in 1..Len(stmt.Assignments)}
      [] stmt.node = "Fail" -> {<<"Fail", stmt.Position>>}
      [] OTHER -> {}

BodyNodes(body) == UNION {StmtNodes(body.Statements[j]) : j \in 1..Len(body.Statements)}

\* C28: every statement node and expression node of a returned File carries
\* the line, column and offset of the first token of the text it was parsed
\* from; a Binary stands where its leftmost operand stands, a member access
\* or call where its leading identifier stands.
C28_NodesCarryFirstTokenPosition ==
    \A c \in PositionCases :
        (r = c.src /\ pc = "done") =>
            /\ ret.err = Nil
            /\ BodyNodes(ret.file.Functions[1].Body) = writtenNodes(c, filename)

RelationCases ==
    {[src |-> RelationSrc(fs), fields |-> fs] : fs \in SeqsUpTo(RelationFields, MaxFields)}

\* the token written after the type of the i-th field
afterType(fs, i) ==
    IF fs[i][2] # "" THEN fs[i][2] ELSE IF i < Len(fs) THEN fs[i + 1][1] ELSE "}"

\* the token written after the token after the type of the i-th field
afterKeyword(fs, i) ==
    IF fs[i][2] = "" THEN ":"
    ELSE IF fs[i][3] # "" THEN fs[i][3]
    ELSE IF i < Len(fs) THEN fs[i + 1][1] ELSE "}"

\* the i-th field stands with the name and the type written, and with the
\* relationship written after its type or none
fieldAsWritten(field, fs, i) ==
    /\ field.Name = fs[i][1]
    /\ field.Type.Name = "Int"
    /\ (field.Relationship # Nil) <=> (afterType(fs, i) \in RelationKinds)
    /\ field.Relationship # Nil =>
           /\ field.Relationship.Kind = afterType(fs, i)
           /\ field.Relationship.Kind \in RelationKinds
           /\ field.Relationship.Target = afterKeyword(fs, i)

\* every relationship is written on its own field, with its target
wellFormedRelations(fs) ==
    \A i \in 1..Len(fs) :
        /\ (fs[i][2] = "") = (fs[i][3] = "")
        /\ fs[i][2] = "" => afterType(fs, i) \notin RelationKinds

\* C29: in a legacy model a field has a Relationship exactly when the token
\* after its type is belongs_to, has_one, has_many or references; a keyword
\* there that is not followed by an identifier is an error; in a returned
\* File each Relationship has one of the four kinds and the target written,
\* and every field written, whatever its name, stands once in the Model's
\* field list in source order. A model whose relationships are all written
\* with their target on their own field is returned.
C29_RelationshipAfterType ==
    \A c \in RelationCases :
        (r = c.src /\ pc = "done") =>
            /\ (\E i \in 1..Len(c.fields) :
                    /\ afterType(c.fields, i) \in RelationKinds
                    /\ afterKeyword(c.fields, i) \in {":", "}"}) => ret.err # Nil
            /\ wellFormedRelations(c.fields) => ret.err = Nil
            /\ ret.err = Nil =>
                   /\ Len(ret.file.Models) = 1
                   /\ Len(ret.file.Models[1].Fields) = Len(c.fields)
                   /\ \A i \in 1..Len(c.fields) :
                          fieldAsWritten(ret.file.Models[1].Fields[i], c.fields, i)

\* a model of two fields, the first with a relationship and the second named
\* has_one and without one, has been returned
C29_RelatedFieldThenKeywordName ==
    /\ pc = "done"
    /\ ret.err = Nil
    /\ \E c \in RelationCases :
           /\ r = c.src
           /\ Len(c.fields) = 2
           /\ c.fields[1][2] = "has_many"
           /\ c.fields[2] = <<"has_one", "", "">>
           /\ ret.file.Models[1].Fields[1].Relationship # Nil
           /\ ret.file.Models[1].Fields[2].Relationship = Nil

TypeDefCases ==
    {[src |-> TypeDefSrc(cls, follower), clauses |-> cls, follower |-> follower] :
         cls \in ClauseLists, follower \in ClauseFollowers}

\* the places of the clauses of the given word
clausesOf(cls, word) == {i \in 1..Len(cls) : cls[i][1] = word}

\* the string of the last clause of the given word, "" when there is none
lastClause(cls, word) ==
    IF clausesOf(cls, word) = {} THEN ""
    ELSE cls[CHOOSE i \in clausesOf(cls, word) : \A j \in clausesOf(cls, word) : j <= i][2]

\* C30: define type N as B followed by why and validate clauses in any
\* order, up to a top-level keyword or the end of input, gives a TypeDef
\* with name N, base type B, the string of the last why clause and, under
\* the key rule, the string of the last validate clause; whenever a validate
\* clause is written the validation mapping holds a rule.
C30_ClausesMakeTheTypeDef ==
    \A c \in TypeDefCases :
        (r = c.src /\ pc = "done") =>
            /\ ret.err = Nil
            /\ Len(ret.file.TypeDefs) = 1
            /\ Len(ret.file.Models) = (IF c.follower = <<>> THEN 0 ELSE 1)
            /\ ret.file.TypeDefs[1].Name = "Email"
            /\ ret.file.TypeDefs[1].BaseType.Name = "String"
            /\ ret.file.TypeDefs[1].Why = lastClause(c.clauses, "why")
            /\ lastClause(c.clauses, "validate") # "" =>
                   <<"rule", lastClause(c.clauses, "validate")>> \in ret.file.TypeDefs[1].Validation
            /\ clausesOf(c.clauses, "validate") # {} =>
                   \E kv \in ret.file.TypeDefs[1].Validation : kv[1] = "rule"

====
